---- MODULE Spec2Model ----
(***************************************************************************)
(* Model of the ice-time allocation engine of scheduler_logic.py:          *)
(* generate_schedule_enhanced_FIXED and the operations it is built from    *)
(* (Time Blocks, the Conflict Ledger, the booking operations and the       *)
(* three allocation phases).                                               *)
(*                                                                         *)
(* Conventions.                                                            *)
(*  - A date is the number of days since the season's start_date; its      *)
(*    weekday is (start_weekday + date) % 7 with Monday = 0.               *)
(*  - A time of day is a number of minutes since midnight; a time_slot     *)
(*    string "HH:MM-HH:MM" is the pair <<start, end>> (the formatting is   *)
(*    injective on times of day, so string equality is pair equality).     *)
(*  - Teams are numbered 1..NumTeams in the lexicographic order of their   *)
(*    names (the order Python uses to break ties when it sorts tuples);    *)
(*    team_order is the insertion order of the teams_data dict.            *)
(*  - An opponent is a team number, or Practice, or TBD.                   *)
(*  - The imperative code is translated in state-passing style: the        *)
(*    mutable objects of a run are the fields of a record st, and an       *)
(*    operation returns the record it leaves behind.  Reading a missing    *)
(*    key of the weekly_count defaultdict creates it, so even the          *)
(*    availability checks return a state.                                  *)
(***************************************************************************)
EXTENDS Integers, Sequences, FiniteSets, TLC

\* ------------------------------------------------------------------ bounds
NumTeams == 2
MaxQuota == 2
MaxSeasonDays == 7

\* --------------------------------------------------------------- constants
Practice == 0
TBD == 0 - 1
NoTeam == 0

Teams == 1..NumTeams
Arenas == {"A", "B"}

H(h, m) == h * 60 + m

Max2(a, b) == IF a >= b THEN a ELSE b
Min2(a, b) == IF a <= b THEN a ELSE b

RECURSIVE SumSeq(_)
SumSeq(s) == IF s = <<>> THEN 0 ELSE Head(s) + SumSeq(Tail(s))

Indices(s) == [i \in 1..Len(s) |-> i]

SeqToSet(s) == {s[i] : i \in 1..Len(s)}

\* ------------------------------------------------------------------ state
VARIABLES
    season_days,      \* (end_date - start_date).days
    start_weekday,    \* start_date.weekday()
    teams_data,       \* team -> normalized team info
    team_order,       \* insertion order of the teams_data dict
    arenas_data,      \* sequence of availability blocks, in dict/list order
    rules_data,       \* <<type, age>> -> ice_times_per_week
    config,           \* the pipeline configuration of SchedulingPipeline
    pc,               \* position of generate_schedule_enhanced_FIXED
    available_blocks, \* the active pool of Time Blocks
    schedule,         \* the schedule entries so far
    team_bookings,    \* ledger index: team -> <<date, time_slot, arena>>
    arena_bookings,   \* ledger index: arena -> <<date, time_slot, team>>
    teams_needing_slots, \* team -> demand record
    queue,            \* phase 0: teams_by_complexity still to process
    iteration,        \* phase 1 / phase 2: iteration counter
    phase_allocated,  \* <<phase0_allocated, phase1_allocated, phase2_allocated>>
    result            \* the returned summary lists

inputs == <<season_days, start_weekday, teams_data, team_order, arenas_data, rules_data,
           config>>
run == <<pc, available_blocks, schedule, team_bookings, arena_bookings,
         teams_needing_slots, queue, iteration, phase_allocated, result>>
vars == <<inputs, run>>
RECURSIVE Call(_, _)

\* ------------------------------------------------------- utility functions
weekday(date) == (start_weekday + date) % 7

get_week_number(date) == (date \div 7) + 1

\* a lookup that gives a team without a rule one ice time per week
max_per_week_default_one(team_info) ==
    LET k == <<team_info.type, team_info.age>>
    IN IF k \in DOMAIN rules_data THEN rules_data[k] ELSE 1

\* rules_data["ice_times_per_week"][type][age], 0 when a key is missing
max_per_week(team_info) ==
    LET k == <<team_info.type, team_info.age>>
    IN IF k \in DOMAIN rules_data THEN rules_data[k] ELSE 0

\* ------------------------------------------------------------ Time Block
NewBlock(arena, date, start_time, end_time) ==
    [arena |-> arena, date |-> date, start_time |-> start_time,
     end_time |-> end_time, bookings |-> <<>>]

BlockEq(a, b) ==
    /\ a.arena = b.arena
    /\ a.date = b.date
    /\ a.start_time = b.start_time
    /\ a.end_time = b.end_time

duration_minutes(block) == block.end_time - block.start_time

used_minutes(block) ==
    SumSeq([i \in 1..Len(block.bookings) |-> block.bookings[i].duration])

remaining_minutes(block) == duration_minutes(block) - used_minutes(block)

\* a can_fit_duration that admits every duration
can_fit_duration_always(block, required_minutes) == TRUE

can_fit_duration(block, required_minutes) ==
    Call("remaining_minutes", <<block>>) >= required_minutes

\* an add_booking that starts every sub-booking at the window start
block_add_booking_at_start(block, team_name, duration, booking_type) ==
    IF ~can_fit_duration(block, duration)
    THEN [ok |-> FALSE, block |-> block, start |-> 0, end |-> 0]
    ELSE LET booking_start == block.start_time
             booking_end == booking_start + duration
             booking == [team |-> team_name, duration |-> duration,
                         start_time |-> booking_start, end_time |-> booking_end,
                         type |-> booking_type]
         IN [ok |-> TRUE,
             block |-> [block EXCEPT !.bookings = Append(@, booking)],
             start |-> booking_start, end |-> booking_end]

\* AvailableBlock.add_booking: [ok |-> FALSE] is the ValueError
block_add_booking(block, team_name, duration, booking_type) ==
    IF ~can_fit_duration(block, duration)
    THEN [ok |-> FALSE, block |-> block, start |-> 0, end |-> 0]
    ELSE LET booking_start == block.start_time + used_minutes(block)
             booking_end == booking_start + duration
             booking == [team |-> team_name, duration |-> duration,
                         start_time |-> booking_start, end_time |-> booking_end,
                         type |-> booking_type]
         IN [ok |-> TRUE,
             block |-> [block EXCEPT !.bookings = Append(@, booking)],
             start |-> booking_start, end |-> booking_end]

\* block.bookings.pop()
block_pop(block) ==
    [block EXCEPT !.bookings = SubSeq(@, 1, Len(@) - 1)]

\* ------------------------------------------------------- Conflict Ledger
\* a team check that finds nothing
TeamConflicts_none(recs, arena, date, time_slot) == <<>>

\* the conflicts list of validate_booking, one tag per appended message
RECURSIVE TeamConflicts(_, _, _, _)
TeamConflicts(recs, arena, date, time_slot) ==
    IF recs = <<>> THEN <<>>
    ELSE LET r == Head(recs)
             rest == TeamConflicts(Tail(recs), arena, date, time_slot)
         IN IF r[1] = date /\ r[2] = time_slot
            THEN (IF r[3] # arena THEN <<"team double-booking">>
                  ELSE <<"duplicate booking">>) \o rest
            ELSE rest

RECURSIVE ArenaConflicts(_, _, _, _, _)
ArenaConflicts(recs, team, date, time_slot, allow_force) ==
    IF recs = <<>> THEN <<>>
    ELSE LET r == Head(recs)
             rest == ArenaConflicts(Tail(recs), team, date, time_slot, allow_force)
         IN IF r[1] = date /\ r[2] = time_slot /\ r[3] # team /\ ~allow_force
            THEN <<"arena double-booking">> \o rest
            ELSE rest

validate_conflicts(tb, ab, team, arena, date, time_slot, allow_force) ==
    Call("TeamConflicts", <<tb[team], arena, date, time_slot>>)
      \o Call("ArenaConflicts", <<ab[arena], team, date, time_slot, allow_force>>)

validate_booking(tb, ab, team, arena, date, time_slot, allow_force) ==
    Len(validate_conflicts(tb, ab, team, arena, date, time_slot, allow_force)) = 0

\* an add_booking that commits without validating
ledger_add_booking_unchecked(st, team, arena, date, time_slot) ==
    [ok |-> TRUE,
     st |-> [st EXCEPT !.tb[team] = Append(@, <<date, time_slot, arena>>),
                       !.ab[arena] = Append(@, <<date, time_slot, team>>)]]

\* ScheduleConflictValidator.add_booking on the state record
ledger_add_booking(st, team, arena, date, time_slot) ==
    IF Call("validate_booking", <<st.tb, st.ab, team, arena, date, time_slot, FALSE>>)
    THEN [ok |-> TRUE,
          st |-> [st EXCEPT !.tb[team] = Append(@, <<date, time_slot, arena>>),
                            !.ab[arena] = Append(@, <<date, time_slot, team>>)]]
    ELSE [ok |-> FALSE, st |-> st]

\* ------------------------------------------------- Team Constraint Model
has_strict_preferences(team_info) ==
    \/ team_info.strict_preferred
    \/ \E i \in 1..Len(team_info.prefs) : team_info.prefs[i].strict

\* a team without any preferred window
preferred_windows_none(team_info, day) == <<>>

\* _parse_preferred_windows: the windows of one day name, in dict order
preferred_windows(team_info, day) ==
    SelectSeq(team_info.prefs, LAMBDA p : p.has_window /\ p.day = day)

has_mandatory_shared_ice(team_info) ==
    team_info.mandatory_shared_ice /\ team_info.allow_shared_ice

tier_value(tier) ==
    CASE tier = "AA" -> 0
      [] tier = "A" -> 1
      [] tier = "BB" -> 2
      [] tier = "B" -> 3
      [] tier = "C" -> 4
      [] OTHER -> 5

calculate_team_priority(team_info) ==
    (IF team_info.age # 0 THEN team_info.age \div 2 ELSE 25)
    + (IF team_info.type = "competitive" THEN tier_value(team_info.tier) ELSE 3)
    - (IF has_mandatory_shared_ice(team_info) THEN 10 ELSE 0)
    - (IF has_strict_preferences(team_info) THEN 8 ELSE 0)

calculate_constraint_complexity(team_info) ==
    (IF has_mandatory_shared_ice(team_info) THEN 100 ELSE 0)
    + (IF has_strict_preferences(team_info) THEN 50 ELSE 0)
    + Len(team_info.blackout_dates) * 2
    + (IF team_info.age # 0 /\ team_info.age <= 9 THEN 20 ELSE 0)
    + (IF ~team_info.allow_shared_ice THEN 30 ELSE 0)

\* a check that finds no blackout on any date
has_blackout_on_date_never(team_info, check_date) ==
    FALSE

has_blackout_on_date(team_info, check_date) ==
    \E i \in 1..Len(team_info.blackout_dates) : team_info.blackout_dates[i] = check_date

_safe_allow_multiple(team_info) == team_info.allow_multiple_per_day

\* a compatibility check that ignores the ages
can_teams_share_ice_any_age(team1_info, team2_info) ==
    team1_info.allow_shared_ice /\ team2_info.allow_shared_ice

\* age 0 stands for an age string without a number (_get_age_numeric is None)
can_teams_share_ice(team1_info, team2_info) ==
    LET age1 == team1_info.age
        age2 == team2_info.age
        age_diff == IF age1 >= age2 THEN age1 - age2 ELSE age2 - age1
    IN /\ age1 # 0
       /\ age2 # 0
       /\ team1_info.allow_shared_ice
       /\ team2_info.allow_shared_ice
       /\ ~(age_diff > 3)

\* ---------------------------------------------- strict preference functions
block_in_window(block, team_info, strict_only) ==
    LET ws == preferred_windows(team_info, weekday(block.date))
    IN \E i \in 1..Len(ws) :
          /\ (strict_only => ws[i].strict)
          /\ block.start_time <= ws[i].start
          /\ block.end_time >= ws[i].end

\* lists of blocks are sequences of indices into the pool
find_exact_strict_preference_matches(team_info, blocks) ==
    SelectSeq(Indices(blocks), LAMBDA i : Call("block_in_window", <<blocks[i], team_info, TRUE>>))

find_preferred_time_matches(team_info, blocks, strict_only) ==
    SelectSeq(Indices(blocks), LAMBDA i : Call("block_in_window", <<blocks[i], team_info, strict_only>>))

\* the intersection keeps team1's order and uses AvailableBlock.__eq__
mutual_of(blocks, m1, m2) ==
    SelectSeq(m1, LAMBDA i : \E k \in 1..Len(m2) : BlockEq(blocks[i], blocks[m2[k]]))

find_mutual_strict_preference_matches(team1_info, team2_info, blocks) ==
    Call("mutual_of", <<blocks, find_exact_strict_preference_matches(team1_info, blocks), find_exact_strict_preference_matches(team2_info, blocks)>>)

find_mutual_preference_matches(team1_info, team2_info, blocks, strict_only) ==
    Call("mutual_of", <<blocks, find_preferred_time_matches(team1_info, blocks, strict_only), find_preferred_time_matches(team2_info, blocks, strict_only)>>)

window_overlaps(block, w) ==
    block.start_time < w.end /\ block.end_time > w.start

overlap_duration(block, w) ==
    Min2(block.end_time, w.end) - Max2(block.start_time, w.start)

\* overlap >= block_duration * 0.8 and * 0.5, in exact arithmetic
strict_window_score(block, w) ==
    IF overlap_duration(block, w) * 10 >= duration_minutes(block) * 8 THEN 1000
    ELSE IF overlap_duration(block, w) * 2 >= duration_minutes(block) THEN 800
    ELSE 600

soft_window_score(block, w) ==
    IF overlap_duration(block, w) * 10 >= duration_minutes(block) * 8 THEN 50 ELSE 30

RECURSIVE score_windows(_, _, _)
score_windows(block, ws, best_score) ==
    IF ws = <<>> THEN best_score
    ELSE IF ~window_overlaps(block, Head(ws)) THEN score_windows(block, Tail(ws), best_score)
    ELSE IF Head(ws).strict THEN Call("strict_window_score", <<block, Head(ws)>>)
    ELSE score_windows(block, Tail(ws), Max2(best_score, Call("soft_window_score", <<block, Head(ws)>>)))

get_block_preference_score(block, team_info) ==
    Call("score_windows", <<block, preferred_windows(team_info, weekday(block.date)), 0>>)

\* --------------------------------------------------------- demand records
\* weekly_count is a defaultdict(int): its domain is the set of keys created
weekly_count_of(st, team, week_num) ==
    IF week_num \in DOMAIN st.td[team].weekly_count
    THEN st.td[team].weekly_count[week_num] ELSE 0

\* reading weekly_count[week_num] creates the key
touch_week(st, team, week_num) ==
    IF week_num \in DOMAIN st.td[team].weekly_count THEN st
    ELSE [st EXCEPT !.td[team].weekly_count = @ @@ (week_num :> 0)]

\* an increment that lands in the bucket of the following week
incr_week_next(st, team, week_num) ==
    [st EXCEPT !.td[team].weekly_count =
        ((week_num + 1) :> (weekly_count_of(st, team, week_num + 1) + 1)) @@ @]

\* team_data["weekly_count"][week_num] += 1
incr_week(st, team, week_num) ==
    [st EXCEPT !.td[team].weekly_count =
        (week_num :> (weekly_count_of(st, team, week_num) + 1)) @@ @]

\* len([d for d in scheduled_dates if d == date]) on a set
get_sessions_on_date_count(st, team, check_date) ==
    IF check_date \in st.td[team].scheduled_dates THEN 1 ELSE 0

\* an availability check that does not read the weekly quota
is_block_available_for_team_no_quota(st, block, team) ==
    LET team_info == teams_data[team]
        week_num == get_week_number(block.date)
    IN IF ~can_fit_duration(block, team_info.practice_duration)
       THEN [ok |-> FALSE, st |-> st]
       ELSE IF has_blackout_on_date(team_info, block.date)
       THEN [ok |-> FALSE, st |-> st]
       ELSE [ok |-> /\ TRUE
                    /\ ~(/\ ~_safe_allow_multiple(team_info)
                          /\ block.date \in st.td[team].scheduled_dates),
             st |-> touch_week(st, team, week_num)]

\* --------------------------------------------------- availability checking
is_block_available_for_team(st, block, team) ==
    LET team_info == teams_data[team]
        week_num == get_week_number(block.date)
    IN IF ~can_fit_duration(block, team_info.practice_duration)
       THEN [ok |-> FALSE, st |-> st]
       ELSE IF has_blackout_on_date(team_info, block.date)
       THEN [ok |-> FALSE, st |-> st]
       ELSE [ok |-> /\ ~(weekly_count_of(st, team, week_num) >= max_per_week(team_info))
                    /\ ~(/\ ~_safe_allow_multiple(team_info)
                          /\ block.date \in st.td[team].scheduled_dates),
             st |-> touch_week(st, team, week_num)]

is_block_available_for_team_capacity_phase(st, block, team) ==
    LET team_info == teams_data[team]
        week_num == get_week_number(block.date)
        sessions_on_date == get_sessions_on_date_count(st, team, block.date)
    IN IF ~can_fit_duration(block, team_info.practice_duration)
       THEN [ok |-> FALSE, st |-> st]
       ELSE IF has_blackout_on_date(team_info, block.date)
       THEN [ok |-> FALSE, st |-> st]
       ELSE [ok |-> /\ ~(weekly_count_of(st, team, week_num) >= max_per_week(team_info))
                    /\ ~(~_safe_allow_multiple(team_info) /\ sessions_on_date >= 1)
                    /\ ~(_safe_allow_multiple(team_info) /\ sessions_on_date >= 2),
             st |-> touch_week(st, team, week_num)]

\* is_block_available_for_team(b, t1) and is_block_available_for_team(b, t2)
both_available(st, block, team1, team2) ==
    LET r1 == Call("is_block_available_for_team", <<st, block, team1>>)
    IN IF ~r1.ok THEN r1 ELSE Call("is_block_available_for_team", <<r1.st, block, team2>>)

both_available_capacity_phase(st, block, team1, team2) ==
    LET r1 == Call("is_block_available_for_team_capacity_phase", <<st, block, team1>>)
    IN IF ~r1.ok THEN r1
       ELSE Call("is_block_available_for_team_capacity_phase", <<r1.st, block, team2>>)

calculate_same_day_penalty(st, team, block_date) ==
    IF get_sessions_on_date_count(st, team, block_date) = 0 THEN 0
    ELSE IF get_sessions_on_date_count(st, team, block_date) = 1 THEN 2000
    ELSE 10000

\* the find_best_* searches return the index of the chosen block (0 for None)
RECURSIVE best_with_distribution(_, _, _, _, _)
best_with_distribution(st, cand, team, best_block, best_score) ==
    IF cand = <<>> THEN [best |-> best_block, st |-> st]
    ELSE LET block == st.blocks[Head(cand)]
             r == Call("is_block_available_for_team", <<st, block, team>>)
             final_score == get_block_preference_score(block, teams_data[team])
                              - Call("calculate_same_day_penalty", <<st, team, block.date>>)
         IN IF r.ok /\ final_score > best_score
            THEN best_with_distribution(r.st, Tail(cand), team, Head(cand), final_score)
            ELSE best_with_distribution(r.st, Tail(cand), team, best_block, best_score)

find_best_block_with_distribution(st, cand, team) ==
    Call("best_with_distribution", <<st, cand, team, 0, 0 - 999999>>)

RECURSIVE best_for_teams_with_distribution(_, _, _, _, _, _)
best_for_teams_with_distribution(st, cand, team1, team2, best_block, best_score) ==
    IF cand = <<>> THEN [best |-> best_block, st |-> st]
    ELSE LET block == st.blocks[Head(cand)]
             r == both_available(st, block, team1, team2)
             final_score ==
                 get_block_preference_score(block, teams_data[team1])
                 + get_block_preference_score(block, teams_data[team2])
                 - (Call("calculate_same_day_penalty", <<st, team1, block.date>>)
                    + Call("calculate_same_day_penalty", <<st, team2, block.date>>))
         IN IF r.ok /\ final_score > best_score
            THEN best_for_teams_with_distribution(r.st, Tail(cand), team1, team2,
                                                  Head(cand), final_score)
            ELSE best_for_teams_with_distribution(r.st, Tail(cand), team1, team2,
                                                  best_block, best_score)

find_best_block_for_teams_with_distribution(st, cand, team1, team2) ==
    Call("best_for_teams_with_distribution", <<st, cand, team1, team2, 0, 0 - 999999>>)

RECURSIVE best_for_teams(_, _, _, _, _, _)
best_for_teams(st, cand, team1, team2, best_block, best_score) ==
    IF cand = <<>> THEN [best |-> best_block, st |-> st]
    ELSE LET block == st.blocks[Head(cand)]
             r == both_available(st, block, team1, team2)
             combined_score ==
                 get_block_preference_score(block, teams_data[team1])
                 + get_block_preference_score(block, teams_data[team2])
         IN IF r.ok /\ combined_score > best_score
            THEN best_for_teams(r.st, Tail(cand), team1, team2, Head(cand), combined_score)
            ELSE best_for_teams(r.st, Tail(cand), team1, team2, best_block, best_score)

find_best_block_for_teams(st, cand, team1, team2) ==
    Call("best_for_teams", <<st, cand, team1, team2, 0, 0 - 1>>)

\* ------------------------------------------------ same-day session policy
is_back_to_back_with_existing_session(st, team, new_block) ==
    LET existing_sessions ==
            SelectSeq(st.schedule,
                      LAMBDA e : e.team = team /\ e.date = new_block.date)
    IN \/ existing_sessions = <<>>
       \/ \E i \in 1..Len(existing_sessions) :
             \/ new_block.start_time = existing_sessions[i].time_slot[2]
             \/ new_block.end_time = existing_sessions[i].time_slot[1]

should_allow_same_day_booking(st, team, new_block, booking_type, allow_multiple) ==
    LET sessions_on_date == get_sessions_on_date_count(st, team, new_block.date)
    IN IF booking_type \in {"strict preference", "preferred time", "forced minimum",
                            "practice", "relaxed"}
       THEN ~(sessions_on_date >= 1)
       ELSE IF booking_type \in {"capacity fill"}
       THEN IF sessions_on_date >= 2 THEN FALSE
            ELSE IF sessions_on_date = 1
            THEN IF ~allow_multiple THEN FALSE
                 ELSE Call("is_back_to_back_with_existing_session", <<st, team, new_block>>)
            ELSE TRUE
       ELSE TRUE

\* ------------------------------------------------------ booking operations
\* f"practice ({booking_type})"
practice_type(booking_type) ==
    CASE booking_type = "strict preference" -> "practice (strict preference)"
      [] booking_type = "preferred time" -> "practice (preferred time)"
      [] booking_type = "forced minimum" -> "practice (forced minimum)"
      [] booking_type = "relaxed" -> "practice (relaxed)"
      [] booking_type = "capacity fill" -> "practice (capacity fill)"
      [] OTHER -> "practice (practice)"

\* a tracking update that only counts the demand down
update_tracking_needed_only(st, team, date) ==
    [st EXCEPT !.td[team].needed = @ - 1]

\* needed -= 1; weekly_count[week_num] += 1; scheduled_dates.add(date)
update_tracking(st, team, date) ==
    LET s1 == [st EXCEPT !.td[team].needed = @ - 1]
        s2 == incr_week(s1, team, get_week_number(date))
    IN [s2 EXCEPT !.td[team].scheduled_dates = @ \cup {date}]

\* a rollback that leaves the tentative reservation in the block
rollback_nothing(st, bi) == st

\* the rollback of a tentative reservation: block.bookings.pop()
rollback(st, bi) == [st EXCEPT !.blocks[bi] = block_pop(@)]

book_team_practice(st, team, bi, booking_type) ==
    LET block == st.blocks[bi]
        required_duration == teams_data[team].practice_duration
        allow_multiple == _safe_allow_multiple(teams_data[team])
        added == Call("block_add_booking", <<block, <<team>>, required_duration, booking_type>>)
        time_slot == <<added.start, added.end>>
        reserved == [st EXCEPT !.blocks[bi] = added.block]
        booking == [team |-> team, opponent |-> Practice, arena |-> block.arena,
                    date |-> block.date, time_slot |-> time_slot,
                    type |-> Call("practice_type", <<booking_type>>)]
        appended == [reserved EXCEPT !.schedule = Append(@, booking)]
        recorded == Call("ledger_add_booking", <<appended, team, block.arena, block.date, time_slot>>).st
    IN IF ~can_fit_duration(block, required_duration) THEN [ok |-> FALSE, st |-> st]
       ELSE IF ~Call("should_allow_same_day_booking", <<st, team, block, booking_type, allow_multiple>>)
       THEN [ok |-> FALSE, st |-> st]
       ELSE IF ~added.ok THEN [ok |-> FALSE, st |-> st]
       ELSE IF ~Call("validate_booking", <<reserved.tb, reserved.ab, team, block.arena, block.date, time_slot, FALSE>>)
       THEN [ok |-> FALSE, st |-> rollback(reserved, bi)]
       ELSE [ok |-> TRUE, st |-> Call("update_tracking", <<recorded, team, block.date>>)]

\* a shared booking that reserves the first team's practice duration
book_shared_practice_first_duration(st, team1, team2, bi) ==
    LET block == st.blocks[bi]
        required_duration == teams_data[team1].practice_duration
        allow_multiple1 == _safe_allow_multiple(teams_data[team1])
        allow_multiple2 == _safe_allow_multiple(teams_data[team2])
        added == Call("block_add_booking", <<block, <<team1, team2>>, required_duration, "shared practice">>)
        time_slot == <<added.start, added.end>>
        reserved == [st EXCEPT !.blocks[bi] = added.block]
        booking == [team |-> team1, opponent |-> team2, arena |-> block.arena,
                    date |-> block.date, time_slot |-> time_slot,
                    type |-> "shared practice"]
        appended == [reserved EXCEPT !.schedule = Append(@, booking)]
        recorded1 == Call("ledger_add_booking", <<appended, team1, block.arena, block.date, time_slot>>).st
        recorded2 == Call("ledger_add_booking", <<recorded1, team2, block.arena, block.date, time_slot>>).st
    IN IF ~can_fit_duration(block, required_duration) THEN [ok |-> FALSE, st |-> st]
       ELSE IF ~Call("should_allow_same_day_booking", <<st, team1, block, "shared practice", allow_multiple1>>)
       THEN [ok |-> FALSE, st |-> st]
       ELSE IF ~Call("should_allow_same_day_booking", <<st, team2, block, "shared practice", allow_multiple2>>)
       THEN [ok |-> FALSE, st |-> st]
       ELSE IF ~added.ok THEN [ok |-> FALSE, st |-> st]
       ELSE IF \/ ~Call("validate_booking", <<reserved.tb, reserved.ab, team1, block.arena, block.date, time_slot, FALSE>>)
               \/ ~Call("validate_booking", <<reserved.tb, reserved.ab, team2, block.arena, block.date, time_slot, FALSE>>)
       THEN [ok |-> FALSE, st |-> rollback(reserved, bi)]
       ELSE [ok |-> TRUE,
             st |-> Call("update_tracking", <<Call("update_tracking", <<recorded2, team1, block.date>>), team2, block.date>>)]

book_shared_practice(st, team1, team2, bi) ==
    LET block == st.blocks[bi]
        required_duration == Max2(teams_data[team1].practice_duration,
                                  teams_data[team2].practice_duration)
        allow_multiple1 == _safe_allow_multiple(teams_data[team1])
        allow_multiple2 == _safe_allow_multiple(teams_data[team2])
        added == Call("block_add_booking", <<block, <<team1, team2>>, required_duration, "shared practice">>)
        time_slot == <<added.start, added.end>>
        reserved == [st EXCEPT !.blocks[bi] = added.block]
        booking == [team |-> team1, opponent |-> team2, arena |-> block.arena,
                    date |-> block.date, time_slot |-> time_slot,
                    type |-> "shared practice"]
        appended == [reserved EXCEPT !.schedule = Append(@, booking)]
        recorded1 == Call("ledger_add_booking", <<appended, team1, block.arena, block.date, time_slot>>).st
        recorded2 == Call("ledger_add_booking", <<recorded1, team2, block.arena, block.date, time_slot>>).st
    IN IF ~can_fit_duration(block, required_duration) THEN [ok |-> FALSE, st |-> st]
       ELSE IF ~Call("should_allow_same_day_booking", <<st, team1, block, "shared practice", allow_multiple1>>)
       THEN [ok |-> FALSE, st |-> st]
       ELSE IF ~Call("should_allow_same_day_booking", <<st, team2, block, "shared practice", allow_multiple2>>)
       THEN [ok |-> FALSE, st |-> st]
       ELSE IF ~added.ok THEN [ok |-> FALSE, st |-> st]
       ELSE IF \/ ~Call("validate_booking", <<reserved.tb, reserved.ab, team1, block.arena, block.date, time_slot, FALSE>>)
               \/ ~Call("validate_booking", <<reserved.tb, reserved.ab, team2, block.arena, block.date, time_slot, FALSE>>)
       THEN [ok |-> FALSE, st |-> rollback(reserved, bi)]
       ELSE [ok |-> TRUE,
             st |-> Call("update_tracking", <<Call("update_tracking", <<recorded2, team1, block.date>>), team2, block.date>>)]

\* -------------------------------------------- phase 0: minimum guarantee
\* for block in cand: if is_block_available_for_team(...): if book_team_practice(...): return True
RECURSIVE first_fit(_, _, _, _)
first_fit(st, team, cand, booking_type) ==
    IF cand = <<>> THEN [ok |-> FALSE, st |-> st]
    ELSE LET r == Call("is_block_available_for_team", <<st, st.blocks[Head(cand)], team>>)
             b == Call("book_team_practice", <<r.st, team, Head(cand), booking_type>>)
         IN IF ~r.ok THEN first_fit(r.st, team, Tail(cand), booking_type)
            ELSE IF b.ok THEN b
            ELSE first_fit(b.st, team, Tail(cand), booking_type)

try_strict_preference_allocation(st, team) ==
    Call("first_fit", <<st, team, find_exact_strict_preference_matches(teams_data[team], st.blocks), "strict preference">>)

try_preferred_time_allocation(st, team) ==
    Call("first_fit", <<st, team, find_preferred_time_matches(teams_data[team], st.blocks, FALSE), "preferred time">>)

\* a relaxed stage that tries nothing
try_any_preference_allocation_skipped(st, team) == [ok |-> FALSE, st |-> st]

try_any_preference_allocation(st, team) == Call("try_preferred_time_allocation", <<st, team>>)

\* a last resort that forces nothing
force_any_available_allocation_skipped(st, team) == [ok |-> FALSE, st |-> st]

force_any_available_allocation(st, team) ==
    Call("first_fit", <<st, team, Indices(st.blocks), "forced minimum">>)

\* the partners, in the insertion order of teams_needing_slots
compatible_partners(st, team) ==
    SelectSeq(team_order,
              LAMBDA other : /\ other # team
                             /\ st.td[other].needed > 0
                             /\ can_teams_share_ice(teams_data[team], teams_data[other]))

\* one attempt of try_mandatory_shared_with_preferences: the best of the
\* mutual blocks, then book_shared_practice
shared_attempt(st, team, partner, mutual_blocks) ==
    LET f == find_best_block_for_teams(st, mutual_blocks, team, partner)
    IN IF mutual_blocks = <<>> THEN [ok |-> FALSE, st |-> st]
       ELSE IF f.best = 0 THEN [ok |-> FALSE, st |-> f.st]
       ELSE Call("book_shared_practice", <<f.st, team, partner, f.best>>)

RECURSIVE shared_with_preferences(_, _, _)
shared_with_preferences(st, team, partners) ==
    IF partners = <<>> THEN [ok |-> FALSE, st |-> st]
    ELSE LET partner == Head(partners)
             a1 == IF /\ has_strict_preferences(teams_data[team])
                      /\ has_strict_preferences(teams_data[partner])
                   THEN Call("shared_attempt", <<st, team, partner, Call("find_mutual_strict_preference_matches", <<teams_data[team], teams_data[partner], st.blocks>>)>>)
                   ELSE [ok |-> FALSE, st |-> st]
             a2 == Call("shared_attempt", <<a1.st, team, partner, Call("find_mutual_preference_matches", <<teams_data[team], teams_data[partner], a1.st.blocks, FALSE>>)>>)
         IN IF a1.ok THEN a1
            ELSE IF a2.ok THEN a2
            ELSE shared_with_preferences(a2.st, team, Tail(partners))

try_mandatory_shared_with_preferences(st, team) ==
    Call("shared_with_preferences", <<st, team, Call("compatible_partners", <<st, team>>)>>)

RECURSIVE shared_first_fit(_, _, _, _)
shared_first_fit(st, team, partner, cand) ==
    IF cand = <<>> THEN [ok |-> FALSE, st |-> st]
    ELSE LET r == both_available(st, st.blocks[Head(cand)], team, partner)
             b == Call("book_shared_practice", <<r.st, team, partner, Head(cand)>>)
         IN IF ~r.ok THEN shared_first_fit(r.st, team, partner, Tail(cand))
            ELSE IF b.ok THEN b
            ELSE shared_first_fit(b.st, team, partner, Tail(cand))

RECURSIVE shared_relaxed(_, _, _)
shared_relaxed(st, team, partners) ==
    IF partners = <<>> THEN [ok |-> FALSE, st |-> st]
    ELSE LET a == Call("shared_first_fit", <<st, team, Head(partners), Indices(st.blocks)>>)
         IN IF a.ok THEN a ELSE shared_relaxed(a.st, team, Tail(partners))

try_mandatory_shared_relaxed(st, team) ==
    Call("shared_relaxed", <<st, team, Call("compatible_partners", <<st, team>>)>>)

\* the body of the loop of allocate_smart_minimum_guarantee for one team
minimum_guarantee_for(st, team) ==
    LET team_info == teams_data[team]
        s1 == IF has_mandatory_shared_ice(team_info)
              THEN try_mandatory_shared_with_preferences(st, team)
              ELSE IF has_strict_preferences(team_info)
              THEN Call("try_strict_preference_allocation", <<st, team>>)
              ELSE Call("try_preferred_time_allocation", <<st, team>>)
        s2 == IF has_mandatory_shared_ice(team_info)
              THEN try_mandatory_shared_relaxed(s1.st, team)
              ELSE try_any_preference_allocation(s1.st, team)
        s3 == force_any_available_allocation(s2.st, team)
    IN IF st.td[team].needed <= 0 THEN [ok |-> FALSE, st |-> st]
       ELSE IF s1.ok THEN s1
       ELSE IF s2.ok THEN s2
       ELSE s3

\* list.sort() of (key, team_name, team_data) tuples: by key, then by name
RECURSIVE sort_teams(_, _)
sort_teams(S, key) ==
    IF S = {} THEN <<>>
    ELSE LET first == CHOOSE t \in S :
                 \A u \in S : key[t] < key[u] \/ (key[t] = key[u] /\ t <= u)
         IN <<first>> \o sort_teams(S \ {first}, key)

Reverse(s) == [i \in 1..Len(s) |-> s[Len(s) + 1 - i]]

\* a list of the teams in need with the least constrained first
teams_by_complexity_ascending(st) ==
    Call("sort_teams", <<{t \in Teams : st.td[t].needed > 0}, [t \in Teams |-> Call("calculate_constraint_complexity", <<teams_data[t]>>)]>>)

\* teams_by_complexity of allocate_smart_minimum_guarantee
teams_by_complexity(st) ==
    Reverse(Call("sort_teams", <<{t \in Teams : st.td[t].needed > 0}, [t \in Teams |-> Call("calculate_constraint_complexity", <<teams_data[t]>>)]>>))

\* ------------------------------------- phase 1: preference optimization
\* teams_needing of one iteration of allocate_preference_optimization
teams_needing(st) ==
    Call("sort_teams", <<{t \in Teams : st.td[t].needed > 0}, [t \in Teams |-> Call("calculate_team_priority", <<teams_data[t]>>)]>>)

RECURSIVE stage_mandatory_shared(_, _)
stage_mandatory_shared(st, teams) ==
    IF teams = <<>> THEN [ok |-> FALSE, st |-> st]
    ELSE LET team == Head(teams)
             a == try_mandatory_shared_with_preferences(st, team)
         IN IF st.td[team].needed <= 0 \/ ~has_mandatory_shared_ice(teams_data[team])
            THEN stage_mandatory_shared(st, Tail(teams))
            ELSE IF a.ok THEN a
            ELSE stage_mandatory_shared(a.st, Tail(teams))

RECURSIVE stage_strict_preference(_, _)
stage_strict_preference(st, teams) ==
    IF teams = <<>> THEN [ok |-> FALSE, st |-> st]
    ELSE LET team == Head(teams)
             a == Call("try_strict_preference_allocation", <<st, team>>)
         IN IF st.td[team].needed <= 0 \/ ~has_strict_preferences(teams_data[team])
            THEN stage_strict_preference(st, Tail(teams))
            ELSE IF a.ok THEN a
            ELSE stage_strict_preference(a.st, Tail(teams))

RECURSIVE stage_preferred_time(_, _)
stage_preferred_time(st, teams) ==
    IF teams = <<>> THEN [ok |-> FALSE, st |-> st]
    ELSE LET team == Head(teams)
             a == Call("try_preferred_time_allocation", <<st, team>>)
         IN IF st.td[team].needed <= 0 THEN stage_preferred_time(st, Tail(teams))
            ELSE IF a.ok THEN a
            ELSE stage_preferred_time(a.st, Tail(teams))

\* the inner loop over teams_needing[i+1:] of the regular shared ice stage
RECURSIVE shared_with_later_teams(_, _, _)
shared_with_later_teams(st, team1, later) ==
    IF later = <<>> THEN [ok |-> FALSE, st |-> st]
    ELSE LET team2 == Head(later)
             a == Call("shared_attempt", <<st, team1, team2, Call("find_mutual_preference_matches", <<teams_data[team1], teams_data[team2], st.blocks, FALSE>>)>>)
         IN IF \/ st.td[team2].needed <= 0
               \/ ~teams_data[team2].allow_shared_ice
               \/ ~can_teams_share_ice(teams_data[team1], teams_data[team2])
            THEN shared_with_later_teams(st, team1, Tail(later))
            ELSE IF a.ok THEN a
            ELSE shared_with_later_teams(a.st, team1, Tail(later))

RECURSIVE stage_regular_shared(_, _)
stage_regular_shared(st, teams) ==
    IF teams = <<>> THEN [ok |-> FALSE, st |-> st]
    ELSE LET team1 == Head(teams)
             a == Call("shared_with_later_teams", <<st, team1, Tail(teams)>>)
         IN IF st.td[team1].needed <= 0 \/ ~teams_data[team1].allow_shared_ice
            THEN stage_regular_shared(st, Tail(teams))
            ELSE IF a.ok THEN a
            ELSE stage_regular_shared(a.st, Tail(teams))

\* [block for block in cand if is_block_available_for_team(block, ...)]
RECURSIVE filter_available(_, _, _)
filter_available(st, team, cand) ==
    IF cand = <<>> THEN [list |-> <<>>, st |-> st]
    ELSE LET r == Call("is_block_available_for_team", <<st, st.blocks[Head(cand)], team>>)
             rest == filter_available(r.st, team, Tail(cand))
         IN [list |-> (IF r.ok THEN <<Head(cand)>> ELSE <<>>) \o rest.list,
             st |-> rest.st]

any_available_attempt(st, team, booking_type, individual) ==
    LET f == find_best_block_with_distribution(individual.st, individual.list, team)
    IN IF individual.list = <<>> THEN [ok |-> FALSE, st |-> individual.st]
       ELSE IF f.best = 0 THEN [ok |-> FALSE, st |-> f.st]
       ELSE Call("book_team_practice", <<f.st, team, f.best, booking_type>>)

RECURSIVE stage_any_available(_, _)
stage_any_available(st, teams) ==
    IF teams = <<>> THEN [ok |-> FALSE, st |-> st]
    ELSE LET team == Head(teams)
             a == Call("any_available_attempt", <<st, team, "relaxed", Call("filter_available", <<st, team, Indices(st.blocks)>>)>>)
         IN IF st.td[team].needed <= 0 THEN stage_any_available(st, Tail(teams))
            ELSE IF a.ok THEN a
            ELSE stage_any_available(a.st, Tail(teams))

\* an iteration whose last stage runs once more after an allocation
preference_optimization_iteration_twice(st) ==
    LET teams == teams_needing(st)
        a1 == Call("stage_mandatory_shared", <<st, teams>>)
        a2 == Call("stage_strict_preference", <<a1.st, teams>>)
        a3 == Call("stage_preferred_time", <<a2.st, teams>>)
        a4 == Call("stage_regular_shared", <<a3.st, teams>>)
        a5 == Call("stage_any_available", <<a4.st, teams>>)
        first == IF a1.ok THEN a1 ELSE IF a2.ok THEN a2 ELSE IF a3.ok THEN a3
                 ELSE IF a4.ok THEN a4 ELSE a5
        again == Call("stage_any_available", <<first.st, teams>>)
    IN IF first.ok /\ again.ok THEN again ELSE first

\* one iteration of the while loop, given a non-empty teams_needing
preference_optimization_iteration(st) ==
    LET teams == teams_needing(st)
        a1 == Call("stage_mandatory_shared", <<st, teams>>)
        a2 == Call("stage_strict_preference", <<a1.st, teams>>)
        a3 == Call("stage_preferred_time", <<a2.st, teams>>)
        a4 == Call("stage_regular_shared", <<a3.st, teams>>)
        a5 == Call("stage_any_available", <<a4.st, teams>>)
    IN IF a1.ok THEN a1
       ELSE IF a2.ok THEN a2
       ELSE IF a3.ok THEN a3
       ELSE IF a4.ok THEN a4
       ELSE a5

\* --------------------------------------- phase 2: capacity maximization
RECURSIVE touch_weeks(_, _, _)
\* reads weekly_count[1], ..., weekly_count[n]
touch_weeks(st, team, n) ==
    IF n <= 0 THEN st ELSE touch_week(touch_weeks(st, team, n - 1), team, n)

\* the scan of a satisfied team's weeks: the first week below the quota, or 0
first_open_week(st, team, total_weeks) ==
    LET open == {w \in 1..total_weeks :
                    weekly_count_of(st, team, w) < max_per_week(teams_data[team])}
    IN IF open = {} THEN 0 ELSE CHOOSE w \in open : \A v \in open : w <= v

\* the loop that builds teams_wanting_more, over teams_needing_slots.items()
RECURSIVE wanting_more_scan(_, _)
wanting_more_scan(st, order) ==
    IF order = <<>> THEN [zero |-> {}, hundred |-> {}, st |-> st]
    ELSE LET team == Head(order)
             total_weeks == Max2(1, Cardinality(DOMAIN st.td[team].weekly_count))
             w == Call("first_open_week", <<st, team, total_weeks>>)
             scanned == Call("touch_weeks", <<st, team, IF w = 0 THEN total_weeks ELSE w>>)
             rest == wanting_more_scan(IF st.td[team].needed > 0 THEN st ELSE scanned,
                                       Tail(order))
         IN IF st.td[team].needed > 0
            THEN [rest EXCEPT !.zero = @ \cup {team}]
            ELSE IF w # 0 THEN [rest EXCEPT !.hundred = @ \cup {team}]
            ELSE rest

\* teams_wanting_more after its sort (priority 0 before priority 100)
teams_wanting_more(scan) ==
    Call("sort_teams", <<scan.zero \cup scan.hundred, [t \in Teams |-> IF t \in scan.zero THEN 0 ELSE 100]>>)

RECURSIVE can_take_more(_, _, _)
can_take_more(st, team, cand) ==
    IF cand = <<>> THEN [ok |-> FALSE, st |-> st]
    ELSE LET week_num == get_week_number(st.blocks[Head(cand)].date)
             touched == touch_week(st, team, week_num)
         IN IF weekly_count_of(st, team, week_num) < max_per_week(teams_data[team])
            THEN [ok |-> TRUE, st |-> touched]
            ELSE can_take_more(touched, team, Tail(cand))

RECURSIVE filter_available_capacity(_, _, _)
filter_available_capacity(st, team, cand) ==
    IF cand = <<>> THEN [list |-> <<>>, st |-> st]
    ELSE LET r == Call("is_block_available_for_team_capacity_phase", <<st, st.blocks[Head(cand)], team>>)
             rest == filter_available_capacity(r.st, team, Tail(cand))
         IN [list |-> (IF r.ok THEN <<Head(cand)>> ELSE <<>>) \o rest.list,
             st |-> rest.st]

RECURSIVE filter_shared_capacity(_, _, _, _)
filter_shared_capacity(st, team, other, cand) ==
    IF cand = <<>> THEN [list |-> <<>>, st |-> st]
    ELSE LET r == both_available_capacity_phase(st, st.blocks[Head(cand)], team, other)
             rest == filter_shared_capacity(r.st, team, other, Tail(cand))
         IN [list |-> (IF r.ok THEN <<Head(cand)>> ELSE <<>>) \o rest.list,
             st |-> rest.st]

\* available_blocks.remove(best_block): the first block equal to it
remove_block(blocks, block) ==
    LET j == CHOOSE k \in 1..Len(blocks) :
                 /\ BlockEq(blocks[k], block)
                 /\ \A i \in 1..(k - 1) : ~BlockEq(blocks[i], block)
    IN SubSeq(blocks, 1, j - 1) \o SubSeq(blocks, j + 1, Len(blocks))

\* if best_block.remaining_minutes() < 30: available_blocks.remove(best_block)
remove_if_small(a, bi) ==
    IF a.ok /\ Call("remaining_minutes", <<a.st.blocks[bi]>>) < 30
    THEN [a EXCEPT !.st.blocks = Call("remove_block", <<@, a.st.blocks[bi]>>)]
    ELSE a

capacity_shared_attempt(st, team, other, shared) ==
    LET f == find_best_block_for_teams_with_distribution(shared.st, shared.list, team, other)
    IN IF shared.list = <<>> THEN [ok |-> FALSE, st |-> shared.st]
       ELSE IF f.best = 0 THEN [ok |-> FALSE, st |-> f.st]
       ELSE remove_if_small(Call("book_shared_practice", <<f.st, team, other, f.best>>), f.best)

RECURSIVE capacity_shared(_, _, _)
capacity_shared(st, team, others) ==
    IF others = <<>> THEN [ok |-> FALSE, st |-> st]
    ELSE LET other == Head(others)
             a == Call("capacity_shared_attempt", <<st, team, other, Call("filter_shared_capacity", <<st, team, other, Indices(st.blocks)>>)>>)
         IN IF other = team \/ ~can_teams_share_ice(teams_data[team], teams_data[other])
            THEN capacity_shared(st, team, Tail(others))
            ELSE IF a.ok THEN a
            ELSE capacity_shared(a.st, team, Tail(others))

capacity_individual_attempt(st, team) ==
    LET individual == Call("filter_available_capacity", <<st, team, Indices(st.blocks)>>)
        f == find_best_block_with_distribution(individual.st, individual.list, team)
    IN IF individual.list = <<>> THEN [ok |-> FALSE, st |-> individual.st]
       ELSE IF f.best = 0 THEN [ok |-> FALSE, st |-> f.st]
       ELSE remove_if_small(Call("book_team_practice", <<f.st, team, f.best, "capacity fill">>), f.best)

RECURSIVE capacity_fill(_, _, _)
capacity_fill(st, teams, wanting) ==
    IF teams = <<>> THEN [ok |-> FALSE, st |-> st]
    ELSE LET team == Head(teams)
             c == Call("can_take_more", <<st, team, Indices(st.blocks)>>)
             sh == IF teams_data[team].allow_shared_ice
                   THEN Call("capacity_shared", <<c.st, team, wanting>>)
                   ELSE [ok |-> FALSE, st |-> c.st]
             ind == Call("capacity_individual_attempt", <<sh.st, team>>)
         IN IF ~c.ok THEN capacity_fill(c.st, Tail(teams), wanting)
            ELSE IF sh.ok THEN sh
            ELSE IF ind.ok THEN ind
            ELSE capacity_fill(ind.st, Tail(teams), wanting)

\* one iteration of the while loop of allocate_capacity_maximization;
\* none is TRUE when teams_wanting_more is empty
capacity_maximization_iteration(st) ==
    LET scan == Call("wanting_more_scan", <<st, team_order>>)
        wanting == teams_wanting_more(scan)
        a == Call("capacity_fill", <<scan.st, wanting, wanting>>)
    IN [none |-> wanting = <<>>, ok |-> wanting # <<>> /\ a.ok,
        st |-> IF wanting = <<>> THEN scan.st ELSE a.st]

\* ------------------------------------------- generate_schedule: set-up
max_iterations_phase1 == 25
max_iterations_phase2 == 15

\* what one slot of one date contributes: a schedule entry, a block, or both
slot_is_game(slot) ==
    \/ slot.type = "game"
    \/ slot.type = "" /\ slot.team \in Teams /\ teams_data[slot.team].game_duration # 0

game_end_of(slot) ==
    LET game_duration ==
            IF slot.duration # 0 THEN slot.duration
            ELSE IF slot.team \in Teams THEN teams_data[slot.team].game_duration
            ELSE 60
    IN (slot.time[1] + game_duration) % (24 * 60)

\* a slot whose time string does not parse has time = <<>>: strptime raises
\* before anything is appended and the except clause skips the slot
slot_entries(arena, date, slot) ==
    IF slot.time = <<>> THEN <<>>
    ELSE IF slot.team = NoTeam THEN <<>>
    ELSE IF slot_is_game(slot)
    THEN <<[team |-> slot.team, opponent |-> slot.opponent, arena |-> arena,
            date |-> date, time_slot |-> <<slot.time[1], game_end_of(slot)>>,
            type |-> "game"]>>
    ELSE <<[team |-> slot.team, opponent |-> Practice, arena |-> arena,
            date |-> date, time_slot |-> slot.time, type |-> "practice"]>>

slot_blocks(arena, date, slot) ==
    IF slot.time = <<>> THEN <<>>
    ELSE IF slot.team = NoTeam
    THEN <<NewBlock(arena, date, slot.time[1], slot.time[2])>>
    ELSE IF slot_is_game(slot) /\ game_end_of(slot) < slot.time[2]
    THEN <<NewBlock(arena, date, game_end_of(slot), slot.time[2])>>
    ELSE <<>>

RECURSIVE slots_of_date(_, _, _)
slots_of_date(arena, date, slots) ==
    IF slots = <<>> THEN [schedule |-> <<>>, blocks |-> <<>>]
    ELSE LET rest == slots_of_date(arena, date, Tail(slots))
         IN [schedule |-> Call("slot_entries", <<arena, date, Head(slots)>>) \o rest.schedule,
             blocks |-> Call("slot_blocks", <<arena, date, Head(slots)>>) \o rest.blocks]

RECURSIVE dates_of_block(_, _, _)
\* while current_date <= block_end
dates_of_block(block, current_date, block_end) ==
    IF current_date > block_end THEN [schedule |-> <<>>, blocks |-> <<>>]
    ELSE LET today == Call("slots_of_date", <<block.arena, current_date, block.slots[weekday(current_date)]>>)
             rest == dates_of_block(block, current_date + 1, block_end)
         IN [schedule |-> today.schedule \o rest.schedule,
             blocks |-> today.blocks \o rest.blocks]

RECURSIVE generate_blocks(_)
generate_blocks(arena_blocks) ==
    IF arena_blocks = <<>> THEN [schedule |-> <<>>, blocks |-> <<>>]
    ELSE LET block == Head(arena_blocks)
             here == Call("dates_of_block", <<block, Max2(block.start, 0), Min2(block.end, season_days)>>)
             rest == generate_blocks(Tail(arena_blocks))
         IN [schedule |-> here.schedule \o rest.schedule,
             blocks |-> here.blocks \o rest.blocks]

\* total_weeks = max(1, (end_date - start_date).days // 7)
total_weeks_of_season == Max2(1, season_days \div 7)

RECURSIVE count_events(_, _)
count_events(events, team) ==
    IF events = <<>> THEN 0
    ELSE (IF \/ Head(events).team = team
             \/ Head(events).type = "shared practice" /\ Head(events).opponent = team
          THEN 1 ELSE 0) + count_events(Tail(events), team)

initial_demand(events, team) ==
    LET expected_per_week == max_per_week(teams_data[team])
        needed_total == expected_per_week * total_weeks_of_season
    IN [needed |-> Max2(0, needed_total - count_events(events, team)),
        weekly_count |-> <<>>,
        scheduled_dates |-> {},
        expected_per_week |-> expected_per_week,
        total_target |-> needed_total,
        allocation_priority |-> Call("calculate_team_priority", <<teams_data[team]>>)]

\* scheduled dates and weekly counts of the existing schedule
record_event(st, team, date) ==
    LET s1 == [st EXCEPT !.td[team].scheduled_dates = @ \cup {date}]
    IN incr_week(s1, team, get_week_number(date))

RECURSIVE record_existing(_, _)
record_existing(st, events) ==
    IF events = <<>> THEN st
    ELSE LET e == Head(events)
             s1 == IF e.team \in Teams THEN Call("record_event", <<st, e.team, e.date>>) ELSE st
             s2 == IF /\ e.type = "shared practice"
                      /\ e.opponent \in Teams
                      /\ e.opponent \notin {Practice, TBD}
                   THEN Call("record_event", <<s1, e.opponent, e.date>>) ELSE s1
         IN record_existing(s2, Tail(events))

\* the state of the run when phase 0 starts
initial_state ==
    LET g == Call("generate_blocks", <<arenas_data>>)
        st0 == [blocks |-> g.blocks, schedule |-> g.schedule,
                tb |-> [t \in Teams |-> <<>>], ab |-> [a \in Arenas |-> <<>>],
                td |-> [t \in Teams |-> Call("initial_demand", <<g.schedule, t>>)]]
    IN Call("record_existing", <<st0, g.schedule>>)

\* ------------------------------------------------------ final analysis
allocated_of(st, team) == st.td[team].total_target - st.td[team].needed

sessions_on(events, team, date) ==
    Len(SelectSeq(events, LAMBDA e :
            /\ e.date = date
            /\ \/ e.team = team
               \/ e.type = "shared practice" /\ e.opponent = team))

max_sessions_per_day(events, team) ==
    LET counts == {sessions_on(events, team, events[i].date) : i \in 1..Len(events)}
    IN IF counts = {} THEN 0 ELSE CHOOSE n \in counts : \A m \in counts : n >= m

zero_allocations(st) ==
    SelectSeq(team_order, LAMBDA t : allocated_of(st, t) = 0)

perfect_allocations(st) ==
    SelectSeq(team_order, LAMBDA t :
        allocated_of(st, t) # 0 /\ allocated_of(st, t) = st.td[t].total_target)

\* a local list of the analysis: printed, not returned
underallocated(st) ==
    SelectSeq(team_order, LAMBDA t :
        /\ allocated_of(st, t) # 0
        /\ allocated_of(st, t) # st.td[t].total_target
        /\ st.td[t].needed > 0)

same_day_violations(st) ==
    SelectSeq(team_order, LAMBDA t : Call("max_sessions_per_day", <<st.schedule, t>>) > 2)

\* entry.get(field, "")
entry_get(entry, field) == IF field \in DOMAIN entry THEN entry[field] ELSE ""

entry_key(entry) ==
    <<entry_get(entry, "team"), entry_get(entry, "opponent"),
      entry_get(entry, "arena"), entry_get(entry, "date"),
      entry_get(entry, "time_slot"), entry_get(entry, "type")>>

\* a loop that appends every entry
dedup_keep_all(entries, seen) == entries

RECURSIVE dedup(_, _)
dedup(entries, seen) ==
    IF entries = <<>> THEN <<>>
    ELSE IF entry_key(Head(entries)) \in seen THEN dedup(Tail(entries), seen)
    ELSE <<Head(entries)>>
             \o dedup(Tail(entries), seen \cup {entry_key(Head(entries))})

clean_schedule_duplicates(entries) == dedup(entries, {})

\* ----------------------------------------------------------- the inputs
\* normalize_team_info: strict_preferred is set from the <day>_strict flags,
\* mandatory shared ice forces allow_shared_ice, and a legacy late_ice_cutoff
\* becomes late_ice_cutoff_enabled and late_ice_cutoff_time. An optional time
\* is a sequence: <<>> when it is missing, <<time>> when it is set.
normalize_team_info(raw) ==
    LET new_format == raw.late_ice_cutoff_enabled /\ raw.late_ice_cutoff_time # <<>>
        legacy == raw.late_ice_cutoff
    IN [raw EXCEPT
           !.strict_preferred = \E i \in 1..Len(raw.prefs) : raw.prefs[i].strict,
           !.allow_shared_ice = raw.allow_shared_ice \/ raw.mandatory_shared_ice,
           !.late_ice_cutoff_enabled = IF ~new_format /\ legacy # <<>> THEN TRUE ELSE @,
           !.late_ice_cutoff_time = IF ~new_format /\ legacy # <<>> THEN legacy ELSE @]

Monday == 0
Wednesday == 2

\* the numeric ages of the teams: close enough to share ice, or too far apart
AgeChoices == { [t \in Teams |-> 9], [t \in Teams |-> IF t = 1 THEN 7 ELSE 15] }

Window(day, start, end, strict) ==
    [day |-> day, has_window |-> TRUE, start |-> start, end |-> end, strict |-> strict]

NoPrefs == <<>>
StrictMonday == <<Window(Monday, H(17, 0), H(18, 0), TRUE)>>
SoftMonday == <<Window(Monday, H(17, 0), H(18, 0), FALSE)>>

\* the preferred windows of the teams
PrefChoices ==
    { [t \in Teams |-> NoPrefs],
      [t \in Teams |-> IF t = 1 THEN StrictMonday ELSE NoPrefs],
      [t \in Teams |-> IF t = 1 THEN SoftMonday ELSE NoPrefs],
      [t \in Teams |-> StrictMonday],
      [t \in Teams |-> SoftMonday] }

NoSharing == [allow_shared_ice |-> FALSE, mandatory_shared_ice |-> FALSE]
AllowSharing == [allow_shared_ice |-> TRUE, mandatory_shared_ice |-> FALSE]
MandatorySharing == [allow_shared_ice |-> FALSE, mandatory_shared_ice |-> TRUE]

\* the shared-ice settings of the teams
SharingChoices ==
    { [t \in Teams |-> NoSharing],
      [t \in Teams |-> AllowSharing],
      [t \in Teams |-> MandatorySharing],
      [t \in Teams |-> IF t = 1 THEN MandatorySharing ELSE NoSharing],
      [t \in Teams |-> IF t = 1 THEN MandatorySharing ELSE AllowSharing],
      [t \in Teams |-> IF t = 1 THEN AllowSharing ELSE MandatorySharing] }

\* the blackout dates of the teams: none, or the first Monday for team 1
BlackoutChoices == { [t \in Teams |-> <<>>], [t \in Teams |-> IF t = 1 THEN <<0>> ELSE <<>>] }

RawTeam(age, multiple, sharing, prefs, blackout_dates) ==
    [age |-> age, type |-> "house", tier |-> "HOUSE",
     practice_duration |-> 60, game_duration |-> 60,
     allow_multiple_per_day |-> multiple,
     allow_shared_ice |-> sharing.allow_shared_ice,
     mandatory_shared_ice |-> sharing.mandatory_shared_ice,
     strict_preferred |-> FALSE, prefs |-> prefs, blackout_dates |-> blackout_dates,
     late_ice_cutoff |-> <<>>, late_ice_cutoff_enabled |-> FALSE,
     late_ice_cutoff_time |-> <<>>]

\* no late-ice cutoff, a cutoff of 17:00 in the legacy format, and one in the
\* new format
LateCutoffChoices ==
    { [late_ice_cutoff |-> <<>>, late_ice_cutoff_enabled |-> FALSE,
       late_ice_cutoff_time |-> <<>>],
      [late_ice_cutoff |-> <<H(17, 0)>>, late_ice_cutoff_enabled |-> FALSE,
       late_ice_cutoff_time |-> <<>>],
      [late_ice_cutoff |-> <<>>, late_ice_cutoff_enabled |-> TRUE,
       late_ice_cutoff_time |-> <<H(17, 0)>>] }

\* the team with the cutoff settings
with_late_cutoff(raw, cutoff) ==
    [raw EXCEPT !.late_ice_cutoff = cutoff.late_ice_cutoff,
                !.late_ice_cutoff_enabled = cutoff.late_ice_cutoff_enabled,
                !.late_ice_cutoff_time = cutoff.late_ice_cutoff_time]

TeamsChoices ==
    { [t \in Teams |-> normalize_team_info(
           RawTeam(ages[t], multiple, sharing[t], prefs[t], blackouts[t]))] :
      ages \in AgeChoices, multiple \in BOOLEAN, sharing \in SharingChoices,
      prefs \in PrefChoices, blackouts \in BlackoutChoices }

OpenSlot(start, end) ==
    [time |-> <<start, end>>, team |-> NoTeam, type |-> "", opponent |-> TBD,
     duration |-> 0, game_duration |-> 0]

AssignedSlot(start, end, team, type, duration) ==
    [time |-> <<start, end>>, team |-> team, type |-> type, opponent |-> TBD,
     duration |-> duration, game_duration |-> 0]

Slots(monday, wednesday) ==
    [d \in 0..6 |-> IF d = Monday THEN monday
                    ELSE IF d = Wednesday THEN wednesday ELSE <<>>]

\* an availability block of an arena; its date range is clipped to the
\* season. dates_parse tells whether _parse_date accepts its start and end.
ArenaBlock(arena, monday, wednesday) ==
    [arena |-> arena, start |-> 0 - 1, end |-> MaxSeasonDays + 1,
     dates_parse |-> TRUE, slots |-> Slots(monday, wednesday)]

ArenaChoices ==
    { \* one long Monday block and a Wednesday block
      <<ArenaBlock("A", <<OpenSlot(H(17, 0), H(19, 0))>>, <<OpenSlot(H(18, 0), H(19, 0))>>)>>,
      \* two overlapping windows of one arena
      <<ArenaBlock("A", <<OpenSlot(H(17, 0), H(18, 0)), OpenSlot(H(17, 30), H(18, 30))>>, <<>>)>>,
      \* overlapping windows of two arenas
      <<ArenaBlock("A", <<OpenSlot(H(17, 0), H(18, 0))>>, <<>>),
        ArenaBlock("B", <<OpenSlot(H(17, 30), H(18, 30))>>, <<>>)>>,
      \* the same window in two arenas
      <<ArenaBlock("A", <<OpenSlot(H(17, 0), H(18, 0))>>, <<>>),
        ArenaBlock("B", <<OpenSlot(H(17, 0), H(18, 0))>>, <<>>)>>,
      \* the same window twice in one arena
      <<ArenaBlock("A", <<OpenSlot(H(17, 0), H(18, 0)), OpenSlot(H(17, 0), H(18, 0))>>, <<>>)>>,
      \* two adjacent windows
      <<ArenaBlock("A", <<OpenSlot(H(17, 0), H(18, 0)), OpenSlot(H(18, 0), H(19, 0))>>, <<>>)>>,
      \* a pre-assigned practice of team 1, then an open window
      <<ArenaBlock("A", <<AssignedSlot(H(17, 0), H(18, 0), 1, "practice", 0),
                          OpenSlot(H(18, 0), H(19, 0))>>, <<>>)>>,
      \* a pre-assigned game of team 1 that leaves a remainder, and a Wednesday block
      <<ArenaBlock("A", <<AssignedSlot(H(17, 0), H(19, 0), 1, "", 0)>>,
                   <<OpenSlot(H(18, 0), H(19, 0))>>)>> }

RulesChoices ==
    { [k \in {<<"house", a>> : a \in {7, 9, 15}} |-> q] : q \in 1..MaxQuota }

\* Dispatch of a call by the callee's name.
Call(f, a) ==
    CASE f = "remaining_minutes" -> remaining_minutes(a[1])
      [] f = "block_add_booking" -> block_add_booking(a[1], a[2], a[3], a[4])
      [] f = "TeamConflicts" -> TeamConflicts(a[1], a[2], a[3], a[4])
      [] f = "ArenaConflicts" -> ArenaConflicts(a[1], a[2], a[3], a[4], a[5])
      [] f = "validate_booking" -> validate_booking(a[1], a[2], a[3], a[4], a[5], a[6], a[7])
      [] f = "ledger_add_booking" -> ledger_add_booking(a[1], a[2], a[3], a[4], a[5])
      [] f = "calculate_team_priority" -> calculate_team_priority(a[1])
      [] f = "calculate_constraint_complexity" -> calculate_constraint_complexity(a[1])
      [] f = "block_in_window" -> block_in_window(a[1], a[2], a[3])
      [] f = "mutual_of" -> mutual_of(a[1], a[2], a[3])
      [] f = "find_mutual_strict_preference_matches" -> find_mutual_strict_preference_matches(a[1], a[2], a[3])
      [] f = "find_mutual_preference_matches" -> find_mutual_preference_matches(a[1], a[2], a[3], a[4])
      [] f = "strict_window_score" -> strict_window_score(a[1], a[2])
      [] f = "soft_window_score" -> soft_window_score(a[1], a[2])
      [] f = "score_windows" -> score_windows(a[1], a[2], a[3])
      [] f = "is_block_available_for_team" -> is_block_available_for_team(a[1], a[2], a[3])
      [] f = "is_block_available_for_team_capacity_phase" -> is_block_available_for_team_capacity_phase(a[1], a[2], a[3])
      [] f = "calculate_same_day_penalty" -> calculate_same_day_penalty(a[1], a[2], a[3])
      [] f = "best_with_distribution" -> best_with_distribution(a[1], a[2], a[3], a[4], a[5])
      [] f = "best_for_teams_with_distribution" -> best_for_teams_with_distribution(a[1], a[2], a[3], a[4], a[5], a[6])
      [] f = "best_for_teams" -> best_for_teams(a[1], a[2], a[3], a[4], a[5], a[6])
      [] f = "is_back_to_back_with_existing_session" -> is_back_to_back_with_existing_session(a[1], a[2], a[3])
      [] f = "should_allow_same_day_booking" -> should_allow_same_day_booking(a[1], a[2], a[3], a[4], a[5])
      [] f = "practice_type" -> practice_type(a[1])
      [] f = "update_tracking" -> update_tracking(a[1], a[2], a[3])
      [] f = "book_team_practice" -> book_team_practice(a[1], a[2], a[3], a[4])
      [] f = "book_shared_practice" -> book_shared_practice(a[1], a[2], a[3], a[4])
      [] f = "first_fit" -> first_fit(a[1], a[2], a[3], a[4])
      [] f = "try_strict_preference_allocation" -> try_strict_preference_allocation(a[1], a[2])
      [] f = "try_preferred_time_allocation" -> try_preferred_time_allocation(a[1], a[2])
      [] f = "compatible_partners" -> compatible_partners(a[1], a[2])
      [] f = "shared_attempt" -> shared_attempt(a[1], a[2], a[3], a[4])
      [] f = "shared_with_preferences" -> shared_with_preferences(a[1], a[2], a[3])
      [] f = "shared_first_fit" -> shared_first_fit(a[1], a[2], a[3], a[4])
      [] f = "shared_relaxed" -> shared_relaxed(a[1], a[2], a[3])
      [] f = "minimum_guarantee_for" -> minimum_guarantee_for(a[1], a[2])
      [] f = "sort_teams" -> sort_teams(a[1], a[2])
      [] f = "teams_by_complexity" -> teams_by_complexity(a[1])
      [] f = "stage_mandatory_shared" -> stage_mandatory_shared(a[1], a[2])
      [] f = "stage_strict_preference" -> stage_strict_preference(a[1], a[2])
      [] f = "stage_preferred_time" -> stage_preferred_time(a[1], a[2])
      [] f = "shared_with_later_teams" -> shared_with_later_teams(a[1], a[2], a[3])
      [] f = "stage_regular_shared" -> stage_regular_shared(a[1], a[2])
      [] f = "filter_available" -> filter_available(a[1], a[2], a[3])
      [] f = "any_available_attempt" -> any_available_attempt(a[1], a[2], a[3], a[4])
      [] f = "stage_any_available" -> stage_any_available(a[1], a[2])
      [] f = "preference_optimization_iteration" -> preference_optimization_iteration(a[1])
      [] f = "touch_weeks" -> touch_weeks(a[1], a[2], a[3])
      [] f = "first_open_week" -> first_open_week(a[1], a[2], a[3])
      [] f = "wanting_more_scan" -> wanting_more_scan(a[1], a[2])
      [] f = "can_take_more" -> can_take_more(a[1], a[2], a[3])
      [] f = "filter_available_capacity" -> filter_available_capacity(a[1], a[2], a[3])
      [] f = "filter_shared_capacity" -> filter_shared_capacity(a[1], a[2], a[3], a[4])
      [] f = "remove_block" -> remove_block(a[1], a[2])
      [] f = "capacity_shared_attempt" -> capacity_shared_attempt(a[1], a[2], a[3], a[4])
      [] f = "capacity_shared" -> capacity_shared(a[1], a[2], a[3])
      [] f = "capacity_individual_attempt" -> capacity_individual_attempt(a[1], a[2])
      [] f = "capacity_fill" -> capacity_fill(a[1], a[2], a[3])
      [] f = "capacity_maximization_iteration" -> capacity_maximization_iteration(a[1])
      [] f = "slot_entries" -> slot_entries(a[1], a[2], a[3])
      [] f = "slot_blocks" -> slot_blocks(a[1], a[2], a[3])
      [] f = "slots_of_date" -> slots_of_date(a[1], a[2], a[3])
      [] f = "dates_of_block" -> dates_of_block(a[1], a[2], a[3])
      [] f = "generate_blocks" -> generate_blocks(a[1])
      [] f = "initial_demand" -> initial_demand(a[1], a[2])
      [] f = "record_event" -> record_event(a[1], a[2], a[3])
      [] f = "record_existing" -> record_existing(a[1], a[2])
      [] f = "max_sessions_per_day" -> max_sessions_per_day(a[1], a[2])
      [] f = "perfect_allocations" -> perfect_allocations(a[1])
      [] f = "underallocated" -> underallocated(a[1])

Init ==
    /\ season_days \in 6..MaxSeasonDays
    /\ start_weekday = Monday
    /\ teams_data \in TeamsChoices
    /\ team_order = [t \in Teams |-> t]
    /\ arenas_data \in ArenaChoices
    /\ rules_data \in RulesChoices
    /\ pc = "start"
    /\ config = <<>>
    /\ available_blocks = <<>>
    /\ schedule = <<>>
    /\ team_bookings = [t \in Teams |-> <<>>]
    /\ arena_bookings = [a \in Arenas |-> <<>>]
    /\ teams_needing_slots = [t \in Teams |-> Call("initial_demand", <<<<>>, t>>)]
    /\ queue = <<>>
    /\ iteration = 0
    /\ phase_allocated = <<0, 0, 0>>
    /\ result = [zero_allocations |-> <<>>, perfect_allocations |-> <<>>,
                 same_day_violations |-> <<>>]

\* ---------------------------------------------------------- the actions
current ==
    [blocks |-> available_blocks, schedule |-> schedule, tb |-> team_bookings,
     ab |-> arena_bookings, td |-> teams_needing_slots]

Becomes(st) ==
    /\ available_blocks' = st.blocks
    /\ schedule' = st.schedule
    /\ team_bookings' = st.tb
    /\ arena_bookings' = st.ab
    /\ teams_needing_slots' = st.td

\* block generation, pre-assigned entries, demand records; phase 0 then
\* builds teams_by_complexity. _parse_date of a block's start and end is
\* outside any try: a date that does not parse raises ValueError and the run
\* ends without a result.
Materialize ==
    /\ pc = "start"
    /\ IF \A k \in 1..Len(arenas_data) : arenas_data[k].dates_parse
       THEN /\ Becomes(initial_state)
            /\ queue' = Call("teams_by_complexity", <<initial_state>>)
            /\ pc' = IF Call("teams_by_complexity", <<initial_state>>) = <<>>
                     THEN "phase1" ELSE "phase0"
       ELSE /\ pc' = "raised"
            /\ UNCHANGED <<available_blocks, schedule, team_bookings, arena_bookings,
                           teams_needing_slots, queue>>
    /\ UNCHANGED <<inputs, iteration, phase_allocated, result>>

\* one turn of the loop of allocate_smart_minimum_guarantee
MinimumGuarantee ==
    /\ pc = "phase0"
    /\ queue # <<>>
    /\ LET a == Call("minimum_guarantee_for", <<current, Head(queue)>>)
       IN /\ Becomes(a.st)
          /\ phase_allocated' =
                 [phase_allocated EXCEPT ![1] = @ + (IF a.ok THEN 1 ELSE 0)]
    /\ queue' = Tail(queue)
    /\ pc' = IF Tail(queue) = <<>> THEN "phase1" ELSE "phase0"
    /\ UNCHANGED <<inputs, iteration, result>>

\* an iteration of phase 1 that goes on after an iteration without progress
PreferenceOptimization_without_progress ==
    /\ pc = "phase1"
    /\ iteration < max_iterations_phase1
    /\ LET a == IF teams_needing(current) = <<>> THEN [ok |-> FALSE, st |-> current]
                ELSE Call("preference_optimization_iteration", <<current>>)
       IN /\ Becomes(a.st)
          /\ phase_allocated' =
                 [phase_allocated EXCEPT ![2] = @ + (IF a.ok THEN 1 ELSE 0)]
          /\ IF iteration + 1 < max_iterations_phase1
             THEN pc' = "phase1" /\ iteration' = iteration + 1
             ELSE pc' = "phase2" /\ iteration' = 0
    /\ UNCHANGED <<inputs, queue, result>>

\* one iteration of the while loop of allocate_preference_optimization
PreferenceOptimization ==
    /\ pc = "phase1"
    /\ iteration < max_iterations_phase1
    /\ LET a == IF teams_needing(current) = <<>> THEN [ok |-> FALSE, st |-> current]
                ELSE Call("preference_optimization_iteration", <<current>>)
       IN /\ Becomes(a.st)
          /\ phase_allocated' =
                 [phase_allocated EXCEPT ![2] = @ + (IF a.ok THEN 1 ELSE 0)]
          /\ IF a.ok /\ iteration + 1 < max_iterations_phase1
             THEN pc' = "phase1" /\ iteration' = iteration + 1
             ELSE pc' = "phase2" /\ iteration' = 0
    /\ UNCHANGED <<inputs, queue, result>>

\* one iteration of the while loop of allocate_capacity_maximization
CapacityMaximization ==
    /\ pc = "phase2"
    /\ iteration < max_iterations_phase2
    /\ LET a == Call("capacity_maximization_iteration", <<current>>)
       IN /\ Becomes(a.st)
          /\ phase_allocated' =
                 [phase_allocated EXCEPT ![3] = @ + (IF a.ok THEN 1 ELSE 0)]
          /\ IF a.ok /\ iteration + 1 < max_iterations_phase2
             THEN pc' = "phase2" /\ iteration' = iteration + 1
             ELSE pc' = "analysis" /\ iteration' = 0
    /\ UNCHANGED <<inputs, queue, result>>

\* the final analysis and clean_schedule_duplicates; the run returns
FinalAnalysis ==
    /\ pc = "analysis"
    /\ result' = [zero_allocations |-> zero_allocations(current),
                  perfect_allocations |-> Call("perfect_allocations", <<current>>),
                  same_day_violations |-> same_day_violations(current)]
    /\ schedule' = clean_schedule_duplicates(schedule)
    /\ pc' = "done"
    /\ UNCHANGED <<inputs, available_blocks, team_bookings, arena_bookings,
                   teams_needing_slots, queue, iteration, phase_allocated>>

Next ==
    \/ Materialize
    \/ MinimumGuarantee
    \/ PreferenceOptimization
    \/ CapacityMaximization
    \/ FinalAnalysis

Spec == Init /\ [][Next]_vars

\* ------------------------------------------------------------ properties
\* the run has returned its schedule
returned == pc = "done"

\* the teams on the ice in a schedule entry
participants(e) ==
    {e.team} \cup (IF e.type = "shared practice" THEN {e.opponent} ELSE {})

\* two time_slot intervals have an instant in common
intervals_overlap(s, t) == s[1] < t[2] /\ t[1] < s[2]

\* entries i and j of the schedule are distinct events at overlapping times
\* of one date
clash(i, j) ==
    /\ i # j
    /\ schedule[i].date = schedule[j].date
    /\ intervals_overlap(schedule[i].time_slot, schedule[j].time_slot)

\* C1: arena no-double-booking. In the returned schedule no two entries of
\* different events and different teams share arena and date with
\* overlapping time_slot intervals. The code compares time_slot strings for
\* equality only, so two arena windows that overlap without being equal are
\* booked to different teams.
C1_ArenaNoDoubleBooking ==
    returned =>
        \A i, j \in 1..Len(schedule) :
            (clash(i, j) /\ schedule[i].arena = schedule[j].arena)
                => participants(schedule[i]) = participants(schedule[j])

\* C2: team no-double-booking. In the returned schedule no team, as 'team'
\* or as the opponent of a shared practice, has two entries on one date with
\* overlapping time_slot intervals, in the same or in different arenas.
C2_TeamNoDoubleBooking ==
    returned =>
        \A i, j \in 1..Len(schedule) :
            clash(i, j)
                => participants(schedule[i]) \cap participants(schedule[j]) = {}

\* C3: capacity invariant. In every state of a run, the durations of the
\* sub-bookings of every Time Block of the pool sum to at most the block's
\* window (remaining_minutes() >= 0).
C3_CapacityInvariant ==
    \A i \in 1..Len(available_blocks) :
        /\ used_minutes(available_blocks[i]) <= duration_minutes(available_blocks[i])
        /\ remaining_minutes(available_blocks[i]) >= 0

\* a block that two bookings have filled to its last minute
C3_BlockFilled ==
    \E i \in 1..Len(available_blocks) :
        /\ Len(available_blocks[i].bookings) >= 2
        /\ remaining_minutes(available_blocks[i]) = 0

\* C4: demand monotonicity. Across the whole run no team's 'needed' counter
\* increases in a step and none is ever below zero.
C4_DemandMonotone ==
    [][\A t \in Teams :
           /\ teams_needing_slots'[t].needed <= teams_needing_slots[t].needed
           /\ teams_needing_slots'[t].needed >= 0]_vars

\* C5: blackout invariant. The returned schedule has no entry, pre-assigned
\* or booked by a phase, for a team (as team or as shared-practice opponent)
\* on one of that team's blackout dates.
C5_BlackoutInvariant ==
    returned =>
        \A i \in 1..Len(schedule) :
            \A t \in participants(schedule[i]) \cap Teams :
                ~has_blackout_on_date(teams_data[t], schedule[i].date)

\* the other team of entry e as seen from team t
counterpart(e, t) == IF e.team = t THEN e.opponent ELSE e.team

\* the lookup of a team's entries used by the demand count, the tracking of
\* the existing schedule and the final analysis
involves(e, t) ==
    e.team = t \/ (e.type = "shared practice" /\ e.opponent = t)

MaxEntries == 3

\* entries of one slot: with a type, with an empty type, and without the
\* 'type' field (the last two have the same key)
DedupEntries ==
    UNION { { [team |-> t, opponent |-> Practice, arena |-> "A", date |-> 0,
               time_slot |-> <<H(17, 0), H(18, 0)>>, type |-> "practice"],
              [team |-> t, opponent |-> Practice, arena |-> "A", date |-> 0,
               time_slot |-> <<H(17, 0), H(18, 0)>>, type |-> ""],
              [team |-> t, opponent |-> Practice, arena |-> "A", date |-> 0,
               time_slot |-> <<H(17, 0), H(18, 0)>>] } : t \in 1..2 }

DedupLists == UNION { [1..n -> DedupEntries] : n \in 0..MaxEntries }

\* queue keeps the list S, schedule the list being cleaned
InitDedup ==
    /\ season_days = MaxSeasonDays
    /\ start_weekday = Monday
    /\ teams_data = <<>>
    /\ team_order = <<>>
    /\ arenas_data = <<>>
    /\ rules_data = <<>>
    /\ pc = "dedup"
    /\ config = <<>>
    /\ available_blocks = <<>>
    /\ queue \in DedupLists
    /\ schedule = queue
    /\ team_bookings = <<>>
    /\ arena_bookings = <<>>
    /\ teams_needing_slots = <<>>
    /\ iteration = 0
    /\ phase_allocated = <<0, 0, 0>>
    /\ result = <<>>

Clean ==
    /\ pc = "dedup"
    /\ schedule' = clean_schedule_duplicates(schedule)
    /\ pc' = "cleaned"
    /\ UNCHANGED <<inputs, available_blocks, team_bookings, arena_bookings,
                   teams_needing_slots, queue, iteration, phase_allocated, result>>

CleanAgain ==
    /\ pc = "cleaned"
    /\ schedule' = clean_schedule_duplicates(schedule)
    /\ pc' = "cleaned twice"
    /\ UNCHANGED <<inputs, available_blocks, team_bookings, arena_bookings,
                   teams_needing_slots, queue, iteration, phase_allocated, result>>

NextDedup == Clean \/ CleanAgain

SpecDedup == InitDedup /\ [][NextDedup]_vars

\* the positions of S that hold the first occurrence of their key
first_occurrences(S) ==
    {i \in 1..Len(S) : \A j \in 1..(i - 1) : entry_key(S[j]) # entry_key(S[i])}

\* C7: idempotent dedup. clean_schedule_duplicates(S) has no two entries of
\* one key and is exactly the first occurrences of the keys of S in their
\* original order; cleaning the cleaned list again changes nothing.
C7_IdempotentDedup ==
    /\ pc \in {"cleaned", "cleaned twice"} =>
           /\ \A i, j \in 1..Len(schedule) :
                  i # j => entry_key(schedule[i]) # entry_key(schedule[j])
           /\ Len(schedule) = Cardinality(first_occurrences(queue))
           /\ \A k \in 1..Len(schedule) :
                  \E i \in first_occurrences(queue) :
                      /\ schedule[k] = queue[i]
                      /\ Cardinality({h \in first_occurrences(queue) : h < i}) = k - 1
    /\ pc = "cleaned twice" => schedule = clean_schedule_duplicates(queue)

\* a list cleaned twice in which a later entry of an earlier key, different
\* from the first, was dropped
C7_DuplicateDropped ==
    /\ pc = "cleaned twice"
    /\ \E i, j \in 1..Len(queue) :
           /\ i < j
           /\ entry_key(queue[i]) = entry_key(queue[j])
           /\ queue[i] # queue[j]
    /\ Len(schedule) >= 2

\* --------------------- book_team_practice and book_shared_practice alone
\* the booking types passed by phases 0-1 and by phase 2
BookingTypes == {"forced minimum", "capacity fill"}

\* the inputs that the booking functions read: the arena blocks and
\* allow_multiple_per_day
InitBooking ==
    /\ Init
    /\ season_days = 6
    /\ \A k \in DOMAIN rules_data : rules_data[k] = 1
    /\ \A t \in Teams :
           /\ teams_data[t].age = 9
           /\ teams_data[t].prefs = NoPrefs
           /\ ~teams_data[t].allow_shared_ice
           /\ teams_data[t].blackout_dates = <<>>

\* a call of book_team_practice with any team, block and booking type;
\* result keeps the arguments and the returned value
BookTeam ==
    /\ pc # "start"
    /\ \E team \in Teams, bi \in 1..Len(available_blocks), booking_type \in BookingTypes :
           LET a == Call("book_team_practice", <<current, team, bi, booking_type>>)
           IN /\ Becomes(a.st)
              /\ result' = [ok |-> a.ok, call |-> "book_team_practice",
                            teams |-> <<team>>, block |-> bi,
                            booking_type |-> booking_type]
    /\ pc' = "booking"
    /\ UNCHANGED <<inputs, queue, iteration, phase_allocated>>

\* a call of book_shared_practice with any two teams and any block
BookShared ==
    /\ pc # "start"
    /\ \E team1 \in Teams, team2 \in Teams, bi \in 1..Len(available_blocks) :
           /\ team1 # team2
           /\ LET a == Call("book_shared_practice", <<current, team1, team2, bi>>)
              IN /\ Becomes(a.st)
                 /\ result' = [ok |-> a.ok, call |-> "book_shared_practice",
                               teams |-> <<team1, team2>>, block |-> bi,
                               booking_type |-> "shared practice"]
    /\ pc' = "booking"
    /\ UNCHANGED <<inputs, queue, iteration, phase_allocated>>

NextBooking == Materialize \/ BookTeam \/ BookShared

SpecBooking == InitBooking /\ [][NextBooking]_vars

\* C8: transactional booking. A call of book_team_practice or
\* book_shared_practice that returns failure leaves the blocks with their
\* sub-booking lists, the schedule, the ledger and every team's needed,
\* weekly_count and scheduled_dates exactly as they were before the call.
C8_TransactionalBooking ==
    [][(pc # "start" /\ ~result'.ok)
           => UNCHANGED <<available_blocks, schedule, team_bookings,
                          arena_bookings, teams_needing_slots>>]_vars

\* the last call failed at the Conflict Ledger: the duration fits, the
\* same-day policy admits the booking, and validate_booking refuses the
\* time_slot that add_booking reserved
C8_LedgerRefused ==
    /\ pc = "booking"
    /\ ~result.ok
    /\ LET block == available_blocks[result.block]
           team == result.teams[1]
           duration == teams_data[team].practice_duration
           added == block_add_booking(block, result.teams, duration,
                                      result.booking_type)
       IN /\ can_fit_duration(block, duration)
          /\ \A i \in 1..Len(result.teams) :
                 should_allow_same_day_booking(current, result.teams[i], block,
                     result.booking_type,
                     _safe_allow_multiple(teams_data[result.teams[i]]))
          /\ added.ok
          /\ ~validate_booking(team_bookings, arena_bookings, team, block.arena,
                               block.date, <<added.start, added.end>>, FALSE)
          /\ Len(block.bookings) = 0

\* an entry written by book_team_practice or book_shared_practice
phase_booked(e) == e.type \notin {"game", "practice"}

\* C9: a team with mandatory shared ice is never booked individually. No
\* phase creates a non-shared practice entry for it, and when no other team
\* can share ice with it, it gets no booking in phases 0-2 and ends the run
\* with demand left.
C9_MandatorySharedNeverIndividual ==
    \A t \in Teams :
        has_mandatory_shared_ice(teams_data[t]) =>
            /\ \A i \in 1..Len(schedule) :
                   (phase_booked(schedule[i]) /\ schedule[i].team = t)
                       => schedule[i].type = "shared practice"
            /\ (returned /\ \A o \in Teams \ {t} :
                               ~can_teams_share_ice(teams_data[t], teams_data[o]))
                   => /\ \A i \in 1..Len(schedule) :
                             phase_booked(schedule[i]) => ~involves(schedule[i], t)
                      /\ teams_needing_slots[t].needed > 0

\* ------------------------------------------------- the example scenario
\* The teams of the example, numbered in the order of their names; a team
\* after the first two is an age group without a weekly quota.
ExampleName ==
    [t \in Teams |-> IF t = 1 THEN "U11 House"
                     ELSE IF t = 2 THEN "U9 House" ELSE "U15 House"]

team_named(name) == CHOOSE t \in Teams : ExampleName[t] = name

ExampleTeam(t, multiple, sharing) ==
    IF ExampleName[t] = "U9 House" THEN RawTeam(9, multiple, sharing, StrictMonday, <<>>)
    ELSE IF ExampleName[t] = "U11 House" THEN RawTeam(11, multiple, sharing, NoPrefs, <<>>)
    ELSE RawTeam(15, FALSE, NoSharing, NoPrefs, <<>>)

\* U9 House and U11 House with a quota of one ice time per week, one arena
\* with a Monday 17:00-19:00 and a Wednesday 18:00-19:00 slot, and a season
\* of one week. What the scenario leaves open is chosen freely: the weekday
\* the season starts on, the order the teams are listed in, and the
\* shared-ice and multiple-per-day settings of the two teams.
InitExample ==
    /\ season_days = 6
    /\ start_weekday \in 0..6
    /\ \E multiple \in [Teams -> BOOLEAN], sharing \in [Teams -> {NoSharing, AllowSharing}] :
           teams_data = [t \in Teams |->
                            normalize_team_info(ExampleTeam(t, multiple[t], sharing[t]))]
    /\ team_order \in {[t \in Teams |-> t], [t \in Teams |-> NumTeams + 1 - t]}
    /\ arenas_data = <<ArenaBlock("A", <<OpenSlot(H(17, 0), H(19, 0))>>,
                                  <<OpenSlot(H(18, 0), H(19, 0))>>)>>
    /\ rules_data = [k \in {<<"house", 9>>, <<"house", 11>>} |-> 1]
    /\ pc = "start"
    /\ config = <<>>
    /\ available_blocks = <<>>
    /\ schedule = <<>>
    /\ team_bookings = [t \in Teams |-> <<>>]
    /\ arena_bookings = [a \in Arenas |-> <<>>]
    /\ teams_needing_slots = [t \in Teams |-> Call("initial_demand", <<<<>>, t>>)]
    /\ queue = <<>>
    /\ iteration = 0
    /\ phase_allocated = <<0, 0, 0>>
    /\ result = [zero_allocations |-> <<>>, perfect_allocations |-> <<>>,
                 same_day_violations |-> <<>>]

SpecExample == InitExample /\ [][Next]_vars

\* the entries of the schedule that put the team on the ice
entries_of(t) == SelectSeq(schedule, LAMBDA e : involves(e, t))

\* the team has exactly one entry, on the given weekday and time_slot
booked_once(t, day, time_slot) ==
    /\ Len(entries_of(t)) = 1
    /\ weekday(entries_of(t)[1].date) = day
    /\ entries_of(t)[1].time_slot = time_slot

\* the first phase is over
minimum_guarantee_done == pc \notin {"start", "phase0"}

\* C10: the example scenario. Once the minimum-guarantee phase is over, U9
\* House holds Monday 17:00-18:00 and nothing else; when the run returns,
\* U11 House holds either Monday 18:00-19:00 or Wednesday 18:00-19:00 and
\* nothing else, and both teams have needed = 0 and are reported as
\* perfectly allocated.
C10_ExampleScenario ==
    LET u9 == team_named("U9 House")
        u11 == team_named("U11 House")
    IN /\ minimum_guarantee_done =>
              booked_once(u9, Monday, <<H(17, 0), H(18, 0)>>)
       /\ returned =>
              /\ \/ booked_once(u11, Monday, <<H(18, 0), H(19, 0)>>)
                 \/ booked_once(u11, Wednesday, <<H(18, 0), H(19, 0)>>)
              /\ \A t \in {u9, u11} :
                     /\ teams_needing_slots[t].needed = 0
                     /\ \E i \in 1..Len(result.perfect_allocations) :
                            result.perfect_allocations[i] = t

\* the run of the example has returned with U11 House on the Wednesday slot
C10_U11OnWednesday ==
    /\ returned
    /\ rules_data = [k \in {<<"house", 9>>, <<"house", 11>>} |-> 1]
    /\ booked_once(team_named("U9 House"), Monday, <<H(17, 0), H(18, 0)>>)
    /\ booked_once(team_named("U11 House"), Wednesday, <<H(18, 0), H(19, 0)>>)

\* phase 1 has ended and phase 2 has not started
preference_optimization_done == pc = "phase2" /\ iteration = 0

\* C11: one session per day in phases 0 and 1. At the end of phase 1 no
\* team has two or more schedule entries (individual or shared, the
\* pre-assigned ones counted) on one date, whatever its
\* allow_multiple_per_day flag is.
C11_OneSessionPerDay ==
    preference_optimization_done =>
        \A t \in Teams : max_sessions_per_day(schedule, t) <= 1

\* ------------------------------------------------- a day with three hours
\* Monday ice for three sessions of 60 minutes: one window, or two adjacent
\* windows; a slot whose time does not parse before a window; a block whose
\* dates do not parse after a block with a window
LongDayArenas ==
    { <<ArenaBlock("A", <<OpenSlot(H(17, 0), H(20, 0))>>, <<>>)>>,
      <<ArenaBlock("A", <<OpenSlot(H(17, 0), H(18, 0)), OpenSlot(H(18, 0), H(20, 0))>>, <<>>)>>,
      <<ArenaBlock("A", <<[OpenSlot(H(17, 0), H(18, 0)) EXCEPT !.time = <<>>],
                          OpenSlot(H(18, 0), H(20, 0))>>, <<>>)>>,
      <<ArenaBlock("A", <<OpenSlot(H(17, 0), H(19, 0))>>, <<>>),
        [ArenaBlock("B", <<OpenSlot(H(17, 0), H(19, 0))>>, <<>>)
             EXCEPT !.dates_parse = FALSE]>> }

\* teams without preferences or blackout dates, each with its own
\* allow_multiple_per_day flag, team 1 with or without a late-ice cutoff,
\* and a weekly quota of up to MaxQuota + 1. Team 1 is of age 9; the other
\* teams are of age 9, of age 11 (no quota rule), of age 13 (four years
\* apart) or of an age without a number in it (age 0).
InitLongDay ==
    /\ season_days = 6
    /\ start_weekday = Monday
    /\ \E multiple \in [Teams -> BOOLEAN], sharing \in SharingChoices,
          cutoff \in LateCutoffChoices, other_age \in {9, 11, 13, 0} :
           teams_data = [t \in Teams |->
               LET raw == RawTeam(IF t = 1 THEN 9 ELSE other_age, multiple[t],
                                  sharing[t], NoPrefs, <<>>)
               IN normalize_team_info(IF t = 1 THEN with_late_cutoff(raw, cutoff) ELSE raw)]
    /\ team_order = [t \in Teams |-> t]
    /\ arenas_data \in LongDayArenas
    /\ \E q \in 1..(MaxQuota + 1) :
           rules_data = [k \in {<<"house", a>> : a \in {9, 13, 0}} |-> q]
    /\ pc = "start"
    /\ config = <<>>
    /\ available_blocks = <<>>
    /\ schedule = <<>>
    /\ team_bookings = [t \in Teams |-> <<>>]
    /\ arena_bookings = [a \in Arenas |-> <<>>]
    /\ teams_needing_slots = [t \in Teams |-> Call("initial_demand", <<<<>>, t>>)]
    /\ queue = <<>>
    /\ iteration = 0
    /\ phase_allocated = <<0, 0, 0>>
    /\ result = [zero_allocations |-> <<>>, perfect_allocations |-> <<>>,
                 same_day_violations |-> <<>>]

SpecLongDay == InitLongDay /\ [][Next]_vars

\* phase 2 has ended
capacity_maximization_done == pc \in {"analysis", "done"}

\* C12: the daily cap of capacity maximization. After phase 2 no team has
\* more than 2 sessions on a single date, for any weekly quota and any
\* allow_multiple_per_day setting.
C12_DailyCap ==
    capacity_maximization_done =>
        \A t \in Teams : max_sessions_per_day(schedule, t) <= 2

\* the time_slots follow one another without a gap
back_to_back(s, t) == s[1] = t[2] \/ s[2] = t[1]

\* the entries a step appends to the schedule
appended(i) == i > Len(schedule) /\ i <= Len(schedule')

\* C13: contiguity in capacity maximization. Whenever phase 2 books a team
\* a session on a date where it already has one, the team allows multiple
\* sessions per day and the booked time_slot starts exactly when one of its
\* sessions of that date ends, or ends exactly when one starts.
C13_SecondSessionBackToBack ==
    [][pc = "phase2" =>
         \A i \in 1..Len(schedule') : \A t \in Teams :
             (appended(i) /\ involves(schedule'[i], t)
                  /\ sessions_on(schedule, t, schedule'[i].date) >= 1)
                 => /\ _safe_allow_multiple(teams_data[t])
                    /\ \E j \in 1..Len(schedule) :
                           /\ involves(schedule[j], t)
                           /\ schedule[j].date = schedule'[i].date
                           /\ back_to_back(schedule'[i].time_slot,
                                           schedule[j].time_slot)]_vars

\* the team has a late-ice cutoff configured
has_late_ice_cutoff(team_info) ==
    team_info.late_ice_cutoff_enabled /\ team_info.late_ice_cutoff_time # <<>>

\* C14: the late-ice cutoff. For a team with a late_ice_cutoff time
\* configured, no schedule entry booked by a phase starts after the cutoff.
C14_LateIceCutoff ==
    \A i \in 1..Len(schedule) : \A t \in Teams :
        (phase_booked(schedule[i]) /\ involves(schedule[i], t)
             /\ has_late_ice_cutoff(teams_data[t]))
            => schedule[i].time_slot[1] <= teams_data[t].late_ice_cutoff_time[1]

\* the team is named in a list of the returned summary
listed(list, t) == \E i \in 1..Len(list) : list[i] = t

\* C15: under-allocation is never silently dropped. Every team whose needed
\* counter is still above 0 when the run returns, whether it received no
\* session or some, is identified in the returned result: the only returned
\* list that names teams short of their target is zero_allocations.
C15_UnderAllocationReported ==
    returned =>
        \A t \in Teams :
            teams_needing_slots[t].needed > 0 => listed(result.zero_allocations, t)

\* rules_data has no quota for the team's type and age
without_quota_rule(team_info) == <<team_info.type, team_info.age>> \notin DOMAIN rules_data

\* C16: a team whose (type, age) has no entry in ice_times_per_week starts
\* with needed = 0 and total_target = 0, and no phase ever books it, neither
\* individually nor as the partner of a shared practice.
C16_NoRuleNoBooking ==
    \A t \in Teams :
        without_quota_rule(teams_data[t]) =>
            /\ teams_needing_slots[t].needed = 0
            /\ teams_needing_slots[t].total_target = 0
            /\ \A i \in 1..Len(schedule) :
                   phase_booked(schedule[i]) => ~involves(schedule[i], t)

\* the run has returned with bookings for a team that wants shared ice,
\* next to a team without a quota rule that may share ice with it
C16_PartnerWithoutRule ==
    /\ returned
    /\ \E t, o \in Teams :
           /\ without_quota_rule(teams_data[o])
           /\ ~without_quota_rule(teams_data[t])
           /\ can_teams_share_ice(teams_data[t], teams_data[o])
           /\ teams_data[t].allow_multiple_per_day
           /\ teams_data[o].allow_multiple_per_day
           /\ Len(entries_of(t)) >= 2
           /\ Len(entries_of(o)) = 0

\* the block pool holds a block for the slot of the arena on the date
materialized(blocks, arena, date, slot) ==
    \E b \in 1..Len(blocks) :
        /\ blocks[b].arena = arena
        /\ blocks[b].date = date
        /\ <<blocks[b].start_time, blocks[b].end_time>> = slot.time

\* C17: malformed arena input never aborts the run. Block generation does
\* not raise; a slot whose time does not parse and a block whose dates do
\* not parse are skipped, and every open slot that parses, of every block
\* whose dates parse, is materialized for each of its dates in the season.
C17_MalformedInputSkipped ==
    [][pc = "start" =>
         /\ pc' # "raised"
         /\ \A k \in 1..Len(arenas_data) : \A d \in 0..season_days :
                \A n \in 1..Len(arenas_data[k].slots[weekday(d)]) :
                    LET slot == arenas_data[k].slots[weekday(d)][n]
                    IN (arenas_data[k].dates_parse /\ slot.time # <<>>
                            /\ slot.team = NoTeam)
                           => materialized(available_blocks', arenas_data[k].arena,
                                           d, slot)]_vars

\* ------------------------------------------------- the ledger on its own
\* the <<date, time_slot>> pairs the ledger is called with: two windows of
\* one date that overlap without being equal, and one of them on a second date
LedgerTimes ==
    { <<0, <<H(17, 0), H(18, 0)>>>>, <<0, <<H(17, 30), H(18, 30)>>>>,
      <<1, <<H(17, 0), H(18, 0)>>>> }

\* a new ScheduleConflictValidator
InitLedger ==
    /\ season_days = MaxSeasonDays
    /\ start_weekday = Monday
    /\ teams_data = <<>>
    /\ team_order = <<>>
    /\ arenas_data = <<>>
    /\ rules_data = <<>>
    /\ pc = "ledger"
    /\ config = <<>>
    /\ available_blocks = <<>>
    /\ queue = <<>>
    /\ schedule = <<>>
    /\ team_bookings = [t \in Teams |-> <<>>]
    /\ arena_bookings = [a \in Arenas |-> <<>>]
    /\ teams_needing_slots = <<>>
    /\ iteration = 0
    /\ phase_allocated = <<0, 0, 0>>
    /\ result = [call |-> "", ok |-> TRUE, conflicts |-> <<>>, args |-> <<>>]

\* a call of add_booking, while the ledger holds fewer than MaxEntries
\* bookings; result keeps the arguments and the returned value
AddBooking ==
    /\ pc = "ledger"
    /\ SumSeq([t \in Teams |-> Len(team_bookings[t])]) < MaxEntries
    /\ \E team \in Teams, arena \in Arenas, time \in LedgerTimes :
           LET a == ledger_add_booking(current, team, arena, time[1], time[2])
           IN /\ Becomes(a.st)
              /\ result' = [call |-> "add_booking", ok |-> a.ok, conflicts |-> <<>>,
                            args |-> <<team, arena, time[1], time[2], FALSE>>]
    /\ UNCHANGED <<inputs, pc, queue, iteration, phase_allocated>>

\* a call of validate_booking; result keeps the arguments and the returned pair
ValidateBooking ==
    /\ pc = "ledger"
    /\ \E team \in Teams, arena \in Arenas, time \in LedgerTimes, allow_force \in BOOLEAN :
           result' = [call |-> "validate_booking",
                      ok |-> validate_booking(team_bookings, arena_bookings, team,
                                              arena, time[1], time[2], allow_force),
                      conflicts |-> validate_conflicts(team_bookings, arena_bookings,
                                        team, arena, time[1], time[2], allow_force),
                      args |-> <<team, arena, time[1], time[2], allow_force>>]
    /\ UNCHANGED <<inputs, pc, available_blocks, schedule, team_bookings, arena_bookings,
                   teams_needing_slots, queue, iteration, phase_allocated>>

NextLedger == AddBooking \/ ValidateBooking

SpecLedger == InitLedger /\ [][NextLedger]_vars

\* the team index has a record of the team at the date and time_slot
team_has_record(team, date, time_slot) ==
    \E i \in 1..Len(team_bookings[team]) :
        team_bookings[team][i][1] = date /\ team_bookings[team][i][2] = time_slot

\* the arena index has a record of another team at the date and time_slot
arena_has_other(arena, team, date, time_slot) ==
    \E i \in 1..Len(arena_bookings[arena]) :
        /\ arena_bookings[arena][i][1] = date
        /\ arena_bookings[arena][i][2] = time_slot
        /\ arena_bookings[arena][i][3] # team

\* C18: ledger validation. validate_booking(team, arena, date, time_slot,
\* allow_force) returns not-ok exactly when the team already has a record
\* with the same date and time_slot (in another arena or in the same one), or
\* allow_force is false and the arena has a record with the same date and
\* time_slot for a different team; it returns ok exactly with an empty
\* conflict list; and it never modifies the ledger.
C18_LedgerValidation ==
    /\ [](result.call = "validate_booking" =>
            LET team == result.args[1]
                arena == result.args[2]
                date == result.args[3]
                time_slot == result.args[4]
                allow_force == result.args[5]
            IN /\ ~result.ok <=>
                      \/ team_has_record(team, date, time_slot)
                      \/ ~allow_force /\ arena_has_other(arena, team, date, time_slot)
               /\ result.ok <=> result.conflicts = <<>>)
    /\ [][result'.call = "validate_booking"
              => UNCHANGED <<team_bookings, arena_bookings>>]_vars

\* a validation refused for both reasons: the team is booked elsewhere at
\* that time and the arena is taken by another team
C18_BothConflicts ==
    /\ result.call = "validate_booking"
    /\ ~result.ok
    /\ Len(result.conflicts) = 2
    /\ team_has_record(result.args[1], result.args[3], result.args[4])
    /\ arena_has_other(result.args[2], result.args[1], result.args[3], result.args[4])

\* the bookings of the team index and of the arena index, as
\* <<team, arena, date, time_slot>>
team_index_bookings ==
    UNION { { <<t, r[3], r[1], r[2]>> : r \in SeqToSet(team_bookings[t]) } : t \in Teams }

arena_index_bookings ==
    UNION { { <<r[3], a, r[1], r[2]>> : r \in SeqToSet(arena_bookings[a]) } : a \in Arenas }

\* no record occurs twice in the list
no_duplicates(recs) == Cardinality(SeqToSet(recs)) = Len(recs)

\* C19: add_booking is idempotent-safe. It commits exactly when
\* validate_booking passes, and then appends one record to the team index
\* and one to the arena index; a second identical add_booking returns False
\* and changes nothing; after any sequence of add_booking calls the two
\* indices describe the same set of bookings, without duplicates.
C19_AddBookingIdempotentSafe ==
    /\ [][result'.call = "add_booking" =>
            LET team == result'.args[1]
                arena == result'.args[2]
                date == result'.args[3]
                time_slot == result'.args[4]
            IN /\ result'.ok = validate_booking(team_bookings, arena_bookings, team,
                                                arena, date, time_slot, FALSE)
               /\ IF result'.ok
                  THEN /\ team_bookings' = [team_bookings EXCEPT
                               ![team] = Append(@, <<date, time_slot, arena>>)]
                       /\ arena_bookings' = [arena_bookings EXCEPT
                               ![arena] = Append(@, <<date, time_slot, team>>)]
                  ELSE UNCHANGED <<team_bookings, arena_bookings>>]_vars
    /\ [](result.call = "add_booking" =>
            LET again == ledger_add_booking(current, result.args[1], result.args[2],
                                            result.args[3], result.args[4])
            IN ~again.ok /\ again.st = current)
    /\ [](/\ team_index_bookings = arena_index_bookings
          /\ \A t \in Teams : no_duplicates(team_bookings[t])
          /\ \A a \in Arenas : no_duplicates(arena_bookings[a]))

\* an add_booking that was refused as a duplicate of a booking the team has
\* in the same arena
C19_SecondAddRefused ==
    /\ result.call = "add_booking"
    /\ ~result.ok
    /\ <<result.args[1], result.args[2], result.args[3], result.args[4]>>
           \in team_index_bookings

\* the difference of two ages
age_difference(a, b) == IF a >= b THEN a - b ELSE b - a

\* C20: shared-ice compatibility. Every shared-practice entry created in
\* phases 0-2 pairs two distinct teams that both have allow_shared_ice true,
\* both have a numeric age, and whose ages differ by at most 3; and
\* can_teams_share_ice is symmetric in its two teams.
C20_SharedIceCompatibility ==
    /\ \A i \in 1..Len(schedule) :
           schedule[i].type = "shared practice" =>
               LET team1 == schedule[i].team
                   team2 == schedule[i].opponent
               IN /\ team1 \in Teams
                  /\ team2 \in Teams
                  /\ team1 # team2
                  /\ teams_data[team1].allow_shared_ice
                  /\ teams_data[team2].allow_shared_ice
                  /\ teams_data[team1].age # 0
                  /\ teams_data[team2].age # 0
                  /\ age_difference(teams_data[team1].age, teams_data[team2].age) <= 3
    /\ pc \notin {"start", "raised"} =>
           \A t, o \in Teams :
               can_teams_share_ice(teams_data[t], teams_data[o])
                   <=> can_teams_share_ice(teams_data[o], teams_data[t])

\* the run has returned with a shared practice in its schedule
C20_SharedPracticeBooked ==
    /\ returned
    /\ \E i \in 1..Len(schedule) : schedule[i].type = "shared practice"

\* ------------------------------------------------ the scheduling pipeline
\* scheduler_pipeline.py imports analyze_team_allocation and
\* format_allocation_message from scheduler_logic.py, which defines neither:
\* the import raises ImportError and the module runs on its minimal
\* implementations (a validator that accepts everything, an identity
\* clean_schedule_duplicates). pipeline_steps.py imports eight step functions
\* that scheduler_logic.py does not define either, so every registered step
\* returns PipelineStepResult(0, ..., False, "Enhanced scheduler not available").

\* the keys of the step registry
PIPELINE_STEPS ==
    {"mandatory_shared_ice", "high_priority_individual", "shared_ice_optimization",
     "remaining_individual", "emergency_shared", "final_aggressive"}

\* the slot is a pre-assigned game: the pipeline reads game_duration from the slot
pipeline_slot_is_game(slot) ==
    \/ slot.type = "game"
    \/ slot.type = "" /\ slot.game_duration # 0

pipeline_game_end_of(slot) ==
    LET game_duration ==
            IF slot.duration # 0 THEN slot.duration
            ELSE IF slot.game_duration # 0 THEN slot.game_duration
            ELSE 60
    IN (slot.time[1] + game_duration) % (24 * 60)

\* what one slot of one date contributes in _generate_available_blocks
pipeline_slot(arena, date, slot) ==
    IF slot.time = <<>> THEN [schedule |-> <<>>, blocks |-> <<>>]
    ELSE IF slot.team = NoTeam
    THEN [schedule |-> <<>>,
          blocks |-> <<NewBlock(arena, date, slot.time[1], slot.time[2])>>]
    ELSE IF pipeline_slot_is_game(slot)
    THEN [schedule |-> <<[team |-> slot.team, opponent |-> slot.opponent,
                          arena |-> arena, date |-> date,
                          time_slot |-> <<slot.time[1], pipeline_game_end_of(slot)>>,
                          type |-> "game"]>>,
          blocks |-> IF pipeline_game_end_of(slot) < slot.time[2]
                     THEN <<NewBlock(arena, date, pipeline_game_end_of(slot), slot.time[2])>>
                     ELSE <<>>]
    ELSE [schedule |-> <<[team |-> slot.team, opponent |-> Practice, arena |-> arena,
                          date |-> date, time_slot |-> slot.time, type |-> "practice"]>>,
          blocks |-> <<>>]

RECURSIVE pipeline_slots(_, _, _)
\* the slots of one date, in list order
pipeline_slots(arena, date, slots) ==
    IF slots = <<>> THEN [schedule |-> <<>>, blocks |-> <<>>]
    ELSE LET first == pipeline_slot(arena, date, Head(slots))
             rest == pipeline_slots(arena, date, Tail(slots))
         IN [schedule |-> first.schedule \o rest.schedule,
             blocks |-> first.blocks \o rest.blocks]

RECURSIVE pipeline_dates(_, _, _)
\* while current_date <= block_end
pipeline_dates(block, current_date, block_end) ==
    IF current_date > block_end THEN [schedule |-> <<>>, blocks |-> <<>>]
    ELSE LET today == pipeline_slots(block.arena, current_date,
                                     block.slots[weekday(current_date)])
             rest == pipeline_dates(block, current_date + 1, block_end)
         IN [schedule |-> today.schedule \o rest.schedule,
             blocks |-> today.blocks \o rest.blocks]

RECURSIVE generate_available_blocks(_)
\* SchedulingPipeline._generate_available_blocks: the blocks it returns and
\* the pre-assigned entries it appends to the schedule
generate_available_blocks(arena_blocks) ==
    IF arena_blocks = <<>> THEN [schedule |-> <<>>, blocks |-> <<>>]
    ELSE LET block == Head(arena_blocks)
             here == pipeline_dates(block, Max2(block.start, 0),
                                    Min2(block.end, season_days))
             rest == generate_available_blocks(Tail(arena_blocks))
         IN [schedule |-> here.schedule \o rest.schedule,
             blocks |-> here.blocks \o rest.blocks]

\* step.get("enabled", True) and step.get("priority", 999); a configuration
\* that validate_pipeline_config accepts has both keys in every step
step_enabled(step) == step.enabled
step_priority(step) == step.priority

RECURSIVE insert_step(_, _)
\* the place of a step in a list sorted by priority, behind the steps of the
\* same priority (list.sort is stable)
insert_step(sorted, step) ==
    IF sorted = <<>> THEN <<step>>
    ELSE IF step_priority(step) < step_priority(Head(sorted)) THEN <<step>> \o sorted
    ELSE <<Head(sorted)>> \o insert_step(Tail(sorted), step)

RECURSIVE sort_steps(_)
sort_steps(steps) ==
    IF steps = <<>> THEN <<>>
    ELSE insert_step(sort_steps(SubSeq(steps, 1, Len(steps) - 1)), steps[Len(steps)])

\* the enabled steps in the order of the configuration list
enabled_steps_unsorted(cfg) == SelectSeq(cfg.steps, step_enabled)

\* the enabled steps of the configuration, sorted by priority
enabled_steps(cfg) == sort_steps(SelectSeq(cfg.steps, step_enabled))

\* config.get("global_settings", {}).get("allocation_timeout_seconds", 300)
allocation_timeout_seconds(cfg) ==
    IF cfg.allocation_timeout_seconds = <<>> THEN 300
    ELSE cfg.allocation_timeout_seconds[1]

\* _execute_step: an id that is not in the registry raises ValueError; a
\* registered step finds the enhanced scheduler unavailable and returns a
\* PipelineStepResult with allocated_count 0, the schedule untouched
execute_step(step) ==
    [raises |-> step.id \notin PIPELINE_STEPS, allocated |-> 0]

\* the validate_booking of the minimal ScheduleConflictValidator
fallback_validate_booking(team, arena, date, time_slot) ==
    [ok |-> TRUE, conflicts |-> <<>>]

RECURSIVE validate_final_schedule(_)
\* SchedulingPipeline._validate_final_schedule: the conflicts of every entry
\* that has a team, an arena, a date and a time_slot
validate_final_schedule(entries) ==
    IF entries = <<>> THEN <<>>
    ELSE LET entry == Head(entries)
             v == fallback_validate_booking(entry.team, entry.arena, entry.date,
                                            entry.time_slot)
         IN (IF v.ok THEN <<>> ELSE v.conflicts)
            \o validate_final_schedule(Tail(entries))

\* step_results[id] = value
put_step_result(step_results, id, value) ==
    [k \in DOMAIN step_results \cup {id} |->
        IF k = id THEN value ELSE step_results[k]]

\* one step of a pipeline configuration
PipelineStep(id, priority, enabled, critical) ==
    [id |-> id, priority |-> priority, enabled |-> enabled, critical |-> critical]

\* get_default_pipeline_config(): six enabled steps of priority 1 to 6, none
\* critical, and a timeout of 300 seconds
default_pipeline_config ==
    [steps |-> <<PipelineStep("mandatory_shared_ice", 1, TRUE, FALSE),
                 PipelineStep("high_priority_individual", 2, TRUE, FALSE),
                 PipelineStep("shared_ice_optimization", 3, TRUE, FALSE),
                 PipelineStep("remaining_individual", 4, TRUE, FALSE),
                 PipelineStep("emergency_shared", 5, TRUE, FALSE),
                 PipelineStep("final_aggressive", 6, TRUE, FALSE)>>,
     allocation_timeout_seconds |-> <<300>>]

\* a step takes up to MaxStepSeconds seconds of wall-clock time
MaxStepSeconds == 1

\* the step of a place of the configuration list: a registered id or an id
\* the registry does not know, a priority of 1 or 2, enabled or not,
\* critical or not
StepChoices(place) ==
    LET ids == <<{"mandatory_shared_ice", "custom_first"},
                 {"high_priority_individual", "custom_second"},
                 {"final_aggressive", "custom_third"}>>
    IN {PipelineStep(id, priority, enabled, critical) :
            id \in ids[place], priority \in 1..2,
            enabled \in BOOLEAN, critical \in BOOLEAN}

\* configurations of three steps with distinct ids that
\* validate_pipeline_config accepts, with a timeout of one second or none set
PipelineConfigs ==
    {[steps |-> <<first, second, third>>, allocation_timeout_seconds |-> timeout] :
        first \in StepChoices(1), second \in StepChoices(2), third \in StepChoices(3),
        timeout \in {<<>>, <<1>>}}

\* arenas whose slots are open or pre-assigned
PipelineArenas ==
    { \* nothing pre-assigned
      <<ArenaBlock("A", <<OpenSlot(H(17, 0), H(18, 0))>>, <<>>)>>,
      \* one pre-assigned practice
      <<ArenaBlock("A", <<AssignedSlot(H(17, 0), H(18, 0), 1, "practice", 0),
                          OpenSlot(H(18, 0), H(19, 0))>>, <<>>)>>,
      \* team 1 pre-assigned in two arenas at the same time
      <<ArenaBlock("A", <<AssignedSlot(H(17, 0), H(18, 0), 1, "practice", 0)>>, <<>>),
        ArenaBlock("B", <<AssignedSlot(H(17, 0), H(18, 0), 1, "practice", 0)>>, <<>>)>>,
      \* two teams pre-assigned to the same slot of one arena
      <<ArenaBlock("A", <<AssignedSlot(H(17, 0), H(18, 0), 1, "practice", 0),
                          AssignedSlot(H(17, 0), H(18, 0), 2, "practice", 0)>>, <<>>)>>,
      \* the same pre-assigned practice listed twice
      <<ArenaBlock("A", <<AssignedSlot(H(17, 0), H(18, 0), 1, "practice", 0),
                          AssignedSlot(H(17, 0), H(18, 0), 1, "practice", 0)>>, <<>>)>>,
      \* a pre-assigned game that leaves a remainder, and a practice of team 2
      <<ArenaBlock("A", <<[AssignedSlot(H(17, 0), H(19, 0), 1, "", 0)
                               EXCEPT !.game_duration = 60]>>,
                   <<AssignedSlot(H(18, 0), H(19, 0), 2, "practice", 0)>>)>> }

\* a call of SchedulingPipeline.execute: any configuration with an arena of
\* open ice, or the default configuration with any of the arenas. The demand
\* records execute builds are read by no step that runs and are not part of
\* the returned value; they are left out.
InitPipeline ==
    /\ season_days = 6
    /\ start_weekday = Monday
    /\ teams_data = [t \in Teams |-> RawTeam(9, FALSE, NoSharing, NoPrefs, <<>>)]
    /\ team_order = [t \in Teams |-> t]
    /\ \/ /\ config \in PipelineConfigs
          /\ arenas_data = <<ArenaBlock("A", <<OpenSlot(H(17, 0), H(18, 0))>>, <<>>)>>
       \/ /\ config = default_pipeline_config
          /\ arenas_data \in PipelineArenas
    /\ rules_data = [k \in {<<"house", 9>>} |-> 1]
    /\ pc = "execute"
    /\ available_blocks = <<>>
    /\ schedule = <<>>
    /\ team_bookings = [t \in Teams |-> <<>>]
    /\ arena_bookings = [a \in Arenas |-> <<>>]
    /\ teams_needing_slots = <<>>
    /\ queue = <<>>
    /\ iteration = 0
    /\ phase_allocated = <<0, 0, 0>>
    /\ result = [step_results |-> <<>>, execution_log |-> <<>>, elapsed |-> 0,
                 total_allocated |-> 0, conflicts |-> <<>>]

\* execute up to the loop: the blocks, the pre-assigned entries and the
\* sorted list of the enabled steps
PipelineBegin ==
    /\ pc = "execute"
    /\ IF \A k \in 1..Len(arenas_data) : arenas_data[k].dates_parse
       THEN /\ available_blocks' = generate_available_blocks(arenas_data).blocks
            /\ schedule' = generate_available_blocks(arenas_data).schedule
            /\ queue' = enabled_steps(config)
            /\ pc' = IF enabled_steps(config) = <<>> THEN "validate" ELSE "steps"
       ELSE /\ pc' = "raised"
            /\ UNCHANGED <<available_blocks, schedule, queue>>
    /\ UNCHANGED <<inputs, team_bookings, arena_bookings, teams_needing_slots,
                   iteration, phase_allocated, result>>

\* one turn of the loop that leaves it after any step that raised
ExecuteStep_any_failure_breaks ==
    /\ pc = "steps"
    /\ queue # <<>>
    /\ \E seconds \in 0..MaxStepSeconds :
           LET step == Head(queue)
               ran == execute_step(step)
               now == result.elapsed + seconds
               stop == IF ran.raises THEN TRUE
                       ELSE now > allocation_timeout_seconds(config)
           IN /\ result' = [result EXCEPT
                     !.step_results = put_step_result(@, step.id,
                         [allocated |-> IF ran.raises THEN 0 ELSE ran.allocated,
                          success |-> ~ran.raises]),
                     !.execution_log = Append(@, [ok |-> ~ran.raises, id |-> step.id]),
                     !.total_allocated = IF ran.raises THEN @ ELSE @ + ran.allocated,
                     !.elapsed = now]
              /\ pc' = IF stop \/ Tail(queue) = <<>> THEN "validate" ELSE "steps"
    /\ queue' = Tail(queue)
    /\ UNCHANGED <<inputs, available_blocks, schedule, team_bookings, arena_bookings,
                   teams_needing_slots, iteration, phase_allocated>>

\* one turn of the loop over enabled_steps: the step runs for some seconds
\* and is logged; after a step that returned, the elapsed time is compared
\* with the timeout; after a step that raised, only its critical flag is read
ExecuteStep ==
    /\ pc = "steps"
    /\ queue # <<>>
    /\ \E seconds \in 0..MaxStepSeconds :
           LET step == Head(queue)
               ran == execute_step(step)
               now == result.elapsed + seconds
               stop == IF ran.raises THEN step.critical
                       ELSE now > allocation_timeout_seconds(config)
           IN /\ result' = [result EXCEPT
                     !.step_results = put_step_result(@, step.id,
                         [allocated |-> IF ran.raises THEN 0 ELSE ran.allocated,
                          success |-> ~ran.raises]),
                     !.execution_log = Append(@, [ok |-> ~ran.raises, id |-> step.id]),
                     !.total_allocated = IF ran.raises THEN @ ELSE @ + ran.allocated,
                     !.elapsed = now]
              /\ pc' = IF stop \/ Tail(queue) = <<>> THEN "validate" ELSE "steps"
    /\ queue' = Tail(queue)
    /\ UNCHANGED <<inputs, available_blocks, schedule, team_bookings, arena_bookings,
                   teams_needing_slots, iteration, phase_allocated>>

\* the end of execute: the minimal clean_schedule_duplicates returns the
\* schedule as it is, _validate_final_schedule gives the conflicts
PipelineReturn ==
    /\ pc = "validate"
    /\ result' = [result EXCEPT !.conflicts = validate_final_schedule(schedule)]
    /\ pc' = "returned"
    /\ UNCHANGED <<inputs, available_blocks, schedule, team_bookings, arena_bookings,
                   teams_needing_slots, queue, iteration, phase_allocated>>

NextPipeline == PipelineBegin \/ ExecuteStep \/ PipelineReturn

SpecPipeline == InitPipeline /\ [][NextPipeline]_vars

\* ------------------------------------------- properties of the pipeline
\* the ids of the steps executed so far, in the order of execution
executed == [i \in 1..Len(result.execution_log) |-> result.execution_log[i].id]

\* the step of the configuration with the id (the ids are distinct)
step_of(id) == CHOOSE s \in SeqToSet(config.steps) : s.id = id

\* the ids of the steps of the configuration whose enabled flag is true
enabled_ids == {s.id : s \in {x \in SeqToSet(config.steps) : x.enabled}}

\* the executed steps are enabled, each ran once, in ascending order of
\* priority, ahead of every enabled step that has not run
in_priority_order ==
    /\ \A i \in 1..Len(executed) : executed[i] \in enabled_ids
    /\ \A i, j \in 1..Len(executed) : i < j =>
           /\ executed[i] # executed[j]
           /\ step_of(executed[i]).priority <= step_of(executed[j]).priority
    /\ \A i \in 1..Len(executed) : \A id \in enabled_ids \ SeqToSet(executed) :
           step_of(executed[i]).priority <= step_of(id).priority

\* the loop was left by a break: after a step that returned with the elapsed
\* time above the timeout, or after a critical step that raised
stopped_early ==
    /\ result.execution_log # <<>>
    /\ LET last == result.execution_log[Len(result.execution_log)]
       IN IF last.ok THEN result.elapsed > allocation_timeout_seconds(config)
          ELSE step_of(last.id).critical

\* C21 as stated: when execute returns, the steps it ran are exactly the
\* steps whose enabled flag is true, each once, in ascending order of
\* priority, and no disabled step is in step_results.
C21_RunsExactlyEnabledSteps ==
    pc = "returned" =>
        /\ SeqToSet(executed) = enabled_ids
        /\ in_priority_order
        /\ DOMAIN result.step_results \subseteq enabled_ids

\* C21, amended: in every state of execute the steps run so far are enabled
\* steps, each run once, in ascending order of priority and ahead of the
\* enabled steps still to run; step_results holds exactly their ids, so a
\* disabled step is never executed and never appears there. When execute
\* returns, every enabled step has run unless the loop was left early by a
\* timeout or by a critical step's failure.
C21_EnabledStepsInPriorityOrder ==
    /\ in_priority_order
    /\ DOMAIN result.step_results = SeqToSet(executed)
    /\ pc = "returned" =>
           (SeqToSet(executed) = enabled_ids \/ stopped_early)

\* a run that returned after executing its two enabled steps in an order that
\* is not their order in the configuration list; the third step is disabled
C21_ReorderedSteps ==
    /\ pc = "returned"
    /\ Len(executed) = 2
    /\ Len(SelectSeq(config.steps, step_enabled)) = 2
    /\ executed # [i \in 1..2 |-> SelectSeq(config.steps, step_enabled)[i].id]

\* C22: pipeline timeout. Once the elapsed time exceeds
\* allocation_timeout_seconds after a step, whether that step returned or
\* raised, no further step is started, and execute does not raise.
C22_TimeoutStopsPipeline ==
    /\ [][(/\ result.execution_log # <<>>
           /\ result.elapsed > allocation_timeout_seconds(config))
          => result'.execution_log = result.execution_log]_vars
    /\ [](pc # "raised")

\* entries i and j double-book a team (one team, two arenas) or an arena
\* (one arena, two teams) at the same date and time_slot
double_booking(i, j) ==
    /\ i # j
    /\ schedule[i].date = schedule[j].date
    /\ schedule[i].time_slot = schedule[j].time_slot
    /\ \/ schedule[i].team = schedule[j].team /\ schedule[i].arena # schedule[j].arena
       \/ schedule[i].arena = schedule[j].arena /\ schedule[i].team # schedule[j].team

\* C28: the conflicts list execute returns is empty if and only if the final
\* schedule holds no team double-booking and no arena double-booking at the
\* same date and time_slot.
C28_ConflictsIffDoubleBooking ==
    pc = "returned" =>
        (result.conflicts = <<>>
            <=> ~\E i, j \in 1..Len(schedule) : double_booking(i, j))

\* the list is in ascending order of team priority and holds exactly the
\* teams of the demand records that still need a session
sorted_teams_needing(list, td) ==
    /\ SeqToSet(list) = {t \in Teams : td[t].needed > 0}
    /\ \A i, j \in 1..Len(list) : i < j =>
           /\ list[i] # list[j]
           /\ calculate_team_priority(teams_data[list[i]])
                  <= calculate_team_priority(teams_data[list[j]])

\* C23: round-robin fairness in phase 1. An iteration of the loop of
\* allocate_preference_optimization appends at most one entry to the
\* schedule and changes none of the earlier entries, and the team list every
\* iteration starts from is rebuilt from the current demand records and
\* sorted by ascending team priority.
C23_RoundRobinFairness ==
    /\ [][pc = "phase1" =>
             /\ Len(schedule') <= Len(schedule) + 1
             /\ SubSeq(schedule', 1, Len(schedule)) = schedule]_vars
    /\ [](pc = "phase1" =>
             sorted_teams_needing(teams_needing(current), teams_needing_slots))

\* phase 1 has booked in two iterations in a row, for two different teams,
\* and a team still needs a session
C23_TwoIterationsTwoTeams ==
    /\ pc = "phase1"
    /\ iteration >= 2
    /\ phase_allocated[2] >= 2
    /\ Len(schedule) >= 2
    /\ schedule[Len(schedule)].team # schedule[Len(schedule) - 1].team
    /\ teams_needing(current) # <<>>

\* ------------------------------------------------- seasons of several weeks
\* one arena with three hours of open ice every Monday and every Wednesday,
\* listed as three availability blocks that follow one another
SeasonArenas ==
    LET ice == ArenaBlock("A", <<OpenSlot(H(17, 0), H(20, 0))>>, <<OpenSlot(H(17, 0), H(20, 0))>>)
    IN <<[ice EXCEPT !.start = 0, !.end = 13],
         [ice EXCEPT !.start = 14, !.end = 27],
         [ice EXCEPT !.start = 28, !.end = 44]>>

\* a season of 13 days or of 44 days (seven Mondays and Wednesdays) that
\* starts on a Monday, teams of age 9 without preferences or blackout dates, and a weekly
\* quota of up to MaxQuota + 1 for them
InitSeason ==
    /\ season_days \in {13, 44}
    /\ start_weekday = Monday
    /\ \E multiple \in [Teams -> BOOLEAN], sharing \in SharingChoices :
           teams_data = [t \in Teams |->
               normalize_team_info(RawTeam(9, multiple[t], sharing[t], NoPrefs, <<>>))]
    /\ team_order = [t \in Teams |-> t]
    /\ arenas_data = SeasonArenas
    /\ \E q \in 1..(MaxQuota + 1) : rules_data = [k \in {<<"house", 9>>} |-> q]
    /\ pc = "start"
    /\ config = <<>>
    /\ available_blocks = <<>>
    /\ schedule = <<>>
    /\ team_bookings = [t \in Teams |-> <<>>]
    /\ arena_bookings = [a \in Arenas |-> <<>>]
    /\ teams_needing_slots = [t \in Teams |-> Call("initial_demand", <<<<>>, t>>)]
    /\ queue = <<>>
    /\ iteration = 0
    /\ phase_allocated = <<0, 0, 0>>
    /\ result = [zero_allocations |-> <<>>, perfect_allocations |-> <<>>,
                 same_day_violations |-> <<>>]

SpecSeason == InitSeason /\ [][Next]_vars

\* C24: phase 1 iterates while any team still has needed > 0. When
\* allocate_preference_optimization has returned, either no team has
\* needed > 0 or a further iteration books nothing: the loop never stops
\* while a further allocation is still possible.
C24_PhaseOneRunsToExhaustion ==
    preference_optimization_done =>
        \/ teams_needing(current) = <<>>
        \/ ~Call("preference_optimization_iteration", <<current>>).ok

\* the least remaining capacity a block of the pool is kept with: the
\* threshold of allocate_capacity_maximization
minimum_session_length == 30

\* C25: active-pool invariant. After every successful booking of any phase a
\* Time Block whose remaining capacity is below the minimum session length
\* has left the pool: in no state between bookings does the pool hold a
\* block with less than that remaining.
C25_ActivePoolInvariant ==
    \A i \in 1..Len(available_blocks) :
        remaining_minutes(available_blocks[i]) >= minimum_session_length

\* the week buckets that get_week_number gives to the dates of the season,
\* the first and the last date included
week_buckets_of_season == {get_week_number(d) : d \in 0..season_days}

\* C26: total_target of a team is its weekly quota multiplied by the number
\* of weeks of the season, the number of weeks being the number of distinct
\* week buckets that get_week_number assigns to the dates of
\* [start_date, end_date].
C26_TotalTargetCountsWeekBuckets ==
    pc # "start" =>
        \A t \in Teams :
            teams_needing_slots[t].total_target =
                max_per_week(teams_data[t]) * Cardinality(week_buckets_of_season)

\* the team has on some date two or more sessions of which one follows or
\* precedes no other of that date without a gap
sessions_not_consecutive(events, t) ==
    \E i, j \in 1..Len(events) :
        /\ i # j
        /\ involves(events[i], t) /\ involves(events[j], t)
        /\ events[i].date = events[j].date
        /\ \A k \in 1..Len(events) :
               (k # i /\ involves(events[k], t) /\ events[k].date = events[i].date)
                   => ~back_to_back(events[i].time_slot, events[k].time_slot)

\* C27: post-pass same-day detection. When the run has returned, every team
\* that has on some date two or more sessions that are not back-to-back is
\* in the same-day violations of the run.
C27_SameDayDetection ==
    returned =>
        \A t \in Teams :
            sessions_not_consecutive(schedule, t)
                => \E n \in 1..Len(result.same_day_violations) :
                       result.same_day_violations[n] = t

\* C29: after a successful book_shared_practice(A, B, ...) the Conflict
\* Ledger holds a booking record for A and one for B at the booked arena,
\* date and time_slot, and validate_booking refuses either team at that
\* date and time_slot in any other arena.
C29_SharedBookingInLedger ==
    (pc = "booking" /\ result.call = "book_shared_practice" /\ result.ok) =>
        LET e == schedule[Len(schedule)]
        IN \A n \in 1..Len(result.teams) :
               LET t == result.teams[n]
               IN /\ \E i \in 1..Len(team_bookings[t]) :
                         team_bookings[t][i] = <<e.date, e.time_slot, e.arena>>
                  /\ \A a \in Arenas \ {e.arena} :
                         ~validate_booking(team_bookings, arena_bookings, t, a,
                                           e.date, e.time_slot, FALSE)

\* weekly_count[week_num] of a demand record, a defaultdict(int)
count_in_week(record, week_num) ==
    IF week_num \in DOMAIN record.weekly_count THEN record.weekly_count[week_num] ELSE 0

DurationChoices == [Teams -> {60, 90}]

\* a season of eight dates (two Mondays) with two and a half hours of
\* Monday ice; teams of age 9 without preferences or
\* blackout dates, each with its own practice_duration; one ice time per
\* week
InitDurations ==
    /\ season_days = 7
    /\ start_weekday = Monday
    /\ \E durations \in DurationChoices :
           teams_data = [t \in Teams |->
               normalize_team_info(
                   [RawTeam(9, FALSE, AllowSharing, NoPrefs, <<>>)
                        EXCEPT !.practice_duration = durations[t]])]
    /\ team_order = [t \in Teams |-> t]
    /\ arenas_data = <<ArenaBlock("A", <<OpenSlot(H(17, 0), H(19, 30))>>, <<>>)>>
    /\ rules_data = [k \in {<<"house", 9>>} |-> 1]
    /\ pc = "start"
    /\ config = <<>>
    /\ available_blocks = <<>>
    /\ schedule = <<>>
    /\ team_bookings = [t \in Teams |-> <<>>]
    /\ arena_bookings = [a \in Arenas |-> <<>>]
    /\ teams_needing_slots = [t \in Teams |-> Call("initial_demand", <<<<>>, t>>)]
    /\ queue = <<>>
    /\ iteration = 0
    /\ phase_allocated = <<0, 0, 0>>
    /\ result = [zero_allocations |-> <<>>, perfect_allocations |-> <<>>,
                 same_day_violations |-> <<>>]

SpecDurations == InitDurations /\ [][NextBooking]_vars

\* C31: a successful book_shared_practice(A, B, ...) reserves one
\* sub-booking whose duration is the maximum of the two teams' practice
\* durations, appends a single schedule entry with team A, opponent B and
\* type 'shared practice', and updates both demand records alike: needed
\* goes down by 1, weekly_count of the block's week goes up by 1, and the
\* block's date joins scheduled_dates, for each of the two teams.
C31_BookSharedPracticeFrame ==
    [][(pc' = "booking" /\ result'.call = "book_shared_practice" /\ result'.ok) =>
          LET A == result'.teams[1]
              B == result'.teams[2]
              bi == result'.block
              block == available_blocks[bi]
              booked == available_blocks'[bi]
              sub == booked.bookings[Len(booked.bookings)]
              entry == schedule'[Len(schedule')]
              week_num == get_week_number(block.date)
          IN /\ available_blocks' = [available_blocks EXCEPT ![bi] = booked]
             /\ booked = [block EXCEPT !.bookings = Append(block.bookings, sub)]
             /\ sub.duration >= teams_data[A].practice_duration
             /\ sub.duration >= teams_data[B].practice_duration
             /\ sub.duration \in {teams_data[A].practice_duration,
                                  teams_data[B].practice_duration}
             /\ sub.end_time - sub.start_time = sub.duration
             /\ schedule' = Append(schedule, entry)
             /\ entry.team = A /\ entry.opponent = B
             /\ entry.type = "shared practice"
             /\ entry.arena = block.arena /\ entry.date = block.date
             /\ entry.time_slot = <<sub.start_time, sub.end_time>>
             /\ \A t \in {A, B} :
                    LET before == teams_needing_slots[t]
                        after == teams_needing_slots'[t]
                    IN /\ after.needed = before.needed - 1
                       /\ \A w \in DOMAIN before.weekly_count
                                     \cup DOMAIN after.weekly_count \cup {week_num} :
                              count_in_week(after, w) =
                                  count_in_week(before, w) + (IF w = week_num THEN 1 ELSE 0)
                       /\ after.scheduled_dates = before.scheduled_dates \cup {block.date}]_vars

\* a successful book_shared_practice in the second week of the season for a
\* team of 60 minutes with a partner of 90 minutes: 90 minutes are reserved
C31_SharedWithLongerPartner ==
    /\ pc = "booking"
    /\ result.call = "book_shared_practice"
    /\ result.ok
    /\ teams_data[result.teams[1]].practice_duration = 60
    /\ teams_data[result.teams[2]].practice_duration = 90
    /\ LET entry == schedule[Len(schedule)]
       IN /\ entry.time_slot[2] - entry.time_slot[1] = 90
          /\ get_week_number(entry.date) = 2

\* ------------------------------------------------ AvailableBlock alone
\* the windows of the block, from 17:00, and the durations asked of it
BlockWindowEnds == {H(18, 0), H(19, 0), H(19, 30), H(20, 0)}
BlockDurations == {30, 60, 90}

\* one empty block; add_booking is then called on it any number of times
InitBlock ==
    /\ season_days = 6
    /\ start_weekday = Monday
    /\ teams_data = <<>>
    /\ team_order = <<>>
    /\ arenas_data = <<>>
    /\ rules_data = <<>>
    /\ pc = "block"
    /\ config = <<>>
    /\ \E end_time \in BlockWindowEnds :
           available_blocks = <<NewBlock("A", 0, H(17, 0), end_time)>>
    /\ queue = <<>>
    /\ schedule = <<>>
    /\ team_bookings = [t \in Teams |-> <<>>]
    /\ arena_bookings = [a \in Arenas |-> <<>>]
    /\ teams_needing_slots = <<>>
    /\ iteration = 0
    /\ phase_allocated = <<0, 0, 0>>
    /\ result = [call |-> "", ok |-> TRUE, duration |-> 0, start |-> 0, end |-> 0]

\* a call of AvailableBlock.add_booking; result keeps the duration asked
\* and what the call returned, ok |-> FALSE for a ValueError
BlockAddBooking ==
    /\ pc = "block"
    /\ \E team \in Teams, duration \in BlockDurations :
           LET a == block_add_booking(available_blocks[1], team, duration, "practice")
           IN /\ available_blocks' = <<a.block>>
              /\ result' = [call |-> "add_booking", ok |-> a.ok, duration |-> duration,
                            start |-> a.start, end |-> a.end]
    /\ UNCHANGED <<inputs, pc, queue, schedule, team_bookings, arena_bookings,
                   teams_needing_slots, iteration, phase_allocated>>

SpecBlock == InitBlock /\ [][BlockAddBooking]_vars

\* the sum of the durations of the sub-bookings of a block
booked_minutes(block) ==
    SumSeq([i \in 1..Len(block.bookings) |-> block.bookings[i].duration])

\* the sub-bookings of the block follow one another from the window start
\* without a gap or an overlap and end inside the window
packed(block) ==
    \A i \in 1..Len(block.bookings) :
        LET sub == block.bookings[i]
        IN /\ sub.start_time = (IF i = 1 THEN block.start_time
                                ELSE block.bookings[i - 1].end_time)
           /\ sub.end_time = sub.start_time + sub.duration
           /\ sub.end_time <= block.end_time

\* C32: Time Block packing. An add_booking(d) that succeeds returns start =
\* window start + the sum of the durations of all earlier sub-bookings and
\* end = start + d, so the sub-bookings are contiguous from the window
\* start without gaps or overlaps and end <= window end; an add_booking
\* whose duration exceeds remaining_minutes() raises and leaves the
\* sub-booking list unchanged.
C32_TimeBlockPacking ==
    /\ [][pc = "block" =>
            LET block == available_blocks[1]
                d == result'.duration
                left == (block.end_time - block.start_time) - booked_minutes(block)
            IN IF d > left
               THEN ~result'.ok /\ available_blocks' = available_blocks
               ELSE /\ result'.ok
                    /\ result'.start = block.start_time + booked_minutes(block)
                    /\ result'.end = result'.start + d
                    /\ Len(available_blocks'[1].bookings) = Len(block.bookings) + 1
                    /\ SubSeq(available_blocks'[1].bookings, 1, Len(block.bookings))
                           = block.bookings]_vars
    /\ [](\A i \in 1..Len(available_blocks) : packed(available_blocks[i]))

\* the last call succeeded and filled a block of two and a half hours with
\* its third sub-booking, the three of unequal durations
C32_ThreeSubBookingsFill ==
    /\ pc = "block"
    /\ result.call = "add_booking"
    /\ result.ok
    /\ result.end = available_blocks[1].end_time
    /\ LET subs == available_blocks[1].bookings
       IN /\ Len(subs) = 3
          /\ subs[1].duration = 60 /\ subs[2].duration = 30 /\ subs[3].duration = 60

\* the constraint complexity of a team
complexity_of(t) == calculate_constraint_complexity(teams_data[t])

\* C33: phase 0 processes teams most-constrained-first. Every turn of
\* allocate_smart_minimum_guarantee is for a team whose
\* calculate_constraint_complexity is not below that of any team whose turn
\* comes later and which has no later turn of its own; a team whose needed
\* is not above 0 at its turn is passed over with nothing changed; and a
\* turn makes at most one booking, initiated by the team of the turn.
C33_MostConstrainedFirst ==
    [][pc = "phase0" =>
          LET team == Head(queue)
          IN /\ queue' = Tail(queue)
             /\ \A i \in 1..Len(queue') :
                    /\ queue'[i] # team
                    /\ complexity_of(team) >= complexity_of(queue'[i])
             /\ teams_needing_slots[team].needed <= 0 =>
                    UNCHANGED <<available_blocks, schedule, team_bookings,
                                arena_bookings, teams_needing_slots, phase_allocated>>
             /\ \/ schedule' = schedule /\ phase_allocated' = phase_allocated
                \/ /\ Len(schedule') = Len(schedule) + 1
                   /\ schedule' = Append(schedule, schedule'[Len(schedule')])
                   /\ schedule'[Len(schedule')].team = team
                   /\ phase_allocated'[1] = phase_allocated[1] + 1]_vars

\* phase 0 has just ended after a booking for team 2 and a later booking
\* for team 1, whose constraint complexity is lower
C33_SecondTeamFirst ==
    /\ pc = "phase1"
    /\ iteration = 0
    /\ phase_allocated = <<2, 0, 0>>
    /\ complexity_of(2) > complexity_of(1)
    /\ schedule[Len(schedule) - 1].team = 2
    /\ schedule[Len(schedule)].team = 1

\* ------------------------------ a strict window and a softer second choice
\* team 1 asks strictly for Monday 17:00-18:00 and would like Wednesday
\* 18:00-19:00
StrictMondaySoftWednesday ==
    <<Window(Monday, H(17, 0), H(18, 0), TRUE),
      Window(Wednesday, H(18, 0), H(19, 0), FALSE)>>

\* Monday ice for one session, or for two, or behind a practice already
\* assigned to team 1; Wednesday ice with a 17:00-18:00 block ahead of the
\* 18:00-19:00 block, or without the 18:00-19:00 block
PreferenceArenas ==
    { <<ArenaBlock("A", <<OpenSlot(H(17, 0), H(18, 0))>>,
                        <<OpenSlot(H(17, 0), H(18, 0)), OpenSlot(H(18, 0), H(19, 0))>>)>>,
      <<ArenaBlock("A", <<OpenSlot(H(17, 0), H(19, 0))>>,
                        <<OpenSlot(H(17, 0), H(18, 0)), OpenSlot(H(18, 0), H(19, 0))>>)>>,
      <<ArenaBlock("A", <<OpenSlot(H(17, 0), H(18, 0))>>,
                        <<OpenSlot(H(17, 0), H(18, 0))>>)>>,
      <<ArenaBlock("A", <<AssignedSlot(H(16, 0), H(17, 0), 1, "practice", 60),
                          OpenSlot(H(17, 0), H(18, 0))>>,
                        <<OpenSlot(H(17, 0), H(18, 0)), OpenSlot(H(18, 0), H(19, 0))>>)>> }

\* a season of one week; team 1 with the strict Monday window and the soft
\* Wednesday window, with or without a blackout on the Monday; the other
\* teams without preferences or with the same strict Monday window; no
\* shared ice; one allow_multiple_per_day flag and one weekly quota for all
InitPreferences ==
    /\ season_days = 6
    /\ start_weekday = Monday
    /\ \E multiple \in BOOLEAN, others \in {NoPrefs, StrictMonday},
          blackouts \in BlackoutChoices :
           teams_data = [t \in Teams |->
               normalize_team_info(
                   RawTeam(9, multiple, NoSharing,
                           IF t = 1 THEN StrictMondaySoftWednesday ELSE others,
                           blackouts[t]))]
    /\ team_order = [t \in Teams |-> t]
    /\ arenas_data \in PreferenceArenas
    /\ \E q \in 1..MaxQuota : rules_data = [k \in {<<"house", 9>>} |-> q]
    /\ pc = "start"
    /\ config = <<>>
    /\ available_blocks = <<>>
    /\ schedule = <<>>
    /\ team_bookings = [t \in Teams |-> <<>>]
    /\ arena_bookings = [a \in Arenas |-> <<>>]
    /\ teams_needing_slots = [t \in Teams |-> Call("initial_demand", <<<<>>, t>>)]
    /\ queue = <<>>
    /\ iteration = 0
    /\ phase_allocated = <<0, 0, 0>>
    /\ result = [zero_allocations |-> <<>>, perfect_allocations |-> <<>>,
                 same_day_violations |-> <<>>]

SpecPreferences == InitPreferences /\ [][Next]_vars

\* the team can be booked on the block now: the block is available to it
\* and book_team_practice succeeds
can_be_booked(team, bi, booking_type) ==
    /\ is_block_available_for_team(current, available_blocks[bi], team).ok
    /\ book_team_practice(current, team, bi, booking_type).ok

\* the step books the team one practice of the type on a block that holds
\* one of its windows (a strict one if strict_only)
books_in_window(team, type, strict_only) ==
    /\ Len(schedule') = Len(schedule) + 1
    /\ schedule'[Len(schedule')].team = team
    /\ schedule'[Len(schedule')].type = type
    /\ \E bi \in 1..Len(available_blocks) :
           /\ available_blocks'[bi] # available_blocks[bi]
           /\ block_in_window(available_blocks[bi], teams_data[team], strict_only)

\* C34: the fallback chain of phase 0 for a team with strict preferences and
\* without mandatory shared ice. At its turn the team is booked into a
\* block that contains one of its strict windows whenever it can be booked
\* on such a block; only if it cannot, into a block that contains any of
\* its preferred windows; only if that fails too, into any block it can be
\* booked on (forced minimum); and not at all if there is none.
C34_StrictFallbackChain ==
    [][(/\ pc = "phase0"
        /\ has_strict_preferences(teams_data[Head(queue)])
        /\ ~has_mandatory_shared_ice(teams_data[Head(queue)])
        /\ teams_needing_slots[Head(queue)].needed > 0) =>
          LET team == Head(queue)
              info == teams_data[team]
              pool == 1..Len(available_blocks)
          IN IF \E bi \in pool : /\ block_in_window(available_blocks[bi], info, TRUE)
                                 /\ can_be_booked(team, bi, "strict preference")
             THEN books_in_window(team, "practice (strict preference)", TRUE)
             ELSE IF \E bi \in pool : /\ block_in_window(available_blocks[bi], info, FALSE)
                                      /\ can_be_booked(team, bi, "preferred time")
             THEN books_in_window(team, "practice (preferred time)", FALSE)
             ELSE IF \E bi \in pool : can_be_booked(team, bi, "forced minimum")
             THEN /\ Len(schedule') = Len(schedule) + 1
                  /\ schedule'[Len(schedule')].team = team
                  /\ schedule'[Len(schedule')].type = "practice (forced minimum)"
             ELSE schedule' = schedule]_vars

\* phase 0 is over and team 1, which could not be booked on its strict
\* Monday window, holds its preferred Wednesday 18:00-19:00 although the
\* Wednesday 17:00-18:00 block comes first in the pool
C34_FellBackToPreferred ==
    /\ minimum_guarantee_done
    /\ has_strict_preferences(teams_data[1])
    /\ \E i \in 1..Len(schedule) :
           /\ schedule[i].team = 1
           /\ schedule[i].type = "practice (preferred time)"
           /\ schedule[i].date = Wednesday
           /\ schedule[i].time_slot = <<H(18, 0), H(19, 0)>>
    /\ \E bi \in 1..Len(available_blocks) :
           /\ available_blocks[bi].date = Wednesday
           /\ available_blocks[bi].start_time = H(17, 0)

\* phase 0 has just finished
minimum_guarantee_finished == pc = "phase1" /\ iteration = 0

\* the team had needed > 0 when phase 0 started: its target is above the
\* number of its pre-assigned sessions
needed_at_start(t) ==
    initial_demand(SelectSeq(schedule, LAMBDA e : ~phase_booked(e)), t).needed > 0

\* no phase has booked the team a session
unserved(t) ==
    \A i \in 1..Len(schedule) : phase_booked(schedule[i]) => ~involves(schedule[i], t)

\* C35: minimum guarantee. When phase 0 finishes, a team that had
\* needed > 0 at the start of the phase and still has no session booked has
\* no block left in the pool that passes is_block_available_for_team for
\* it: every team for which a usable block existed at its turn received at
\* least one session.
C35_MinimumGuarantee ==
    minimum_guarantee_finished =>
        \A t \in Teams :
            (needed_at_start(t) /\ unserved(t)) =>
                \A bi \in 1..Len(available_blocks) :
                    ~is_block_available_for_team(current, available_blocks[bi], t).ok

\* C35 as amended: when phase 0 finishes, a team that had needed > 0 at the
\* start of the phase and still has no session booked has no block left in
\* the pool on which it can be booked, that is, no block that passes
\* is_block_available_for_team and on which book_team_practice succeeds.
C35_MinimumGuaranteeBookable ==
    minimum_guarantee_finished =>
        \A t \in Teams :
            (needed_at_start(t) /\ unserved(t)) =>
                \A bi \in 1..Len(available_blocks) :
                    ~can_be_booked(t, bi, "forced minimum")

\* phase 0 has finished and left a team that needed ice without a session,
\* with a block in the pool that passes is_block_available_for_team for it
\* and that the Conflict Ledger refuses
C35_UnservedByLedger ==
    /\ minimum_guarantee_finished
    /\ \E t \in Teams :
           /\ needed_at_start(t)
           /\ unserved(t)
           /\ \E bi \in 1..Len(available_blocks) :
                  /\ is_block_available_for_team(current, available_blocks[bi], t).ok
                  /\ ~book_team_practice(current, t, bi, "forced minimum").ok

\* the booking types of phases 0 and 1
StrictSameDayTypes ==
    {"strict preference", "preferred time", "forced minimum", "practice", "relaxed"}

\* the window of the block follows or precedes a session of the team on the
\* block's date without a gap
block_back_to_back(t, block) ==
    \E i \in 1..Len(schedule) :
        /\ involves(schedule[i], t)
        /\ schedule[i].date = block.date
        /\ back_to_back(<<block.start_time, block.end_time>>, schedule[i].time_slot)

\* C36: the same-day policy function. should_allow_same_day_booking returns
\* False for every booking type of phases 0 and 1 whenever the team already
\* has a session on the block's date; for 'capacity fill' with one session
\* on that date it returns True if and only if the team allows multiple
\* sessions per day and the new block is back-to-back with an existing
\* session; with no session on that date it returns True.
C36_SameDayPolicy ==
    pc # "start" =>
        \A t \in Teams : \A bi \in 1..Len(available_blocks) :
            LET block == available_blocks[bi]
                allow_multiple == _safe_allow_multiple(teams_data[t])
                on_date == sessions_on(schedule, t, block.date)
                allows(type) ==
                    should_allow_same_day_booking(current, t, block, type, allow_multiple)
            IN /\ \A type \in StrictSameDayTypes : on_date >= 1 => ~allows(type)
               /\ on_date = 1 =>
                      (allows("capacity fill")
                           <=> (allow_multiple /\ block_back_to_back(t, block)))
               /\ \A type \in StrictSameDayTypes \cup {"capacity fill"} :
                      on_date = 0 => allows(type)

\* the step at the head of the list of enabled steps raises when it is run
head_step_raises == pc = "steps" /\ queue # <<>> /\ execute_step(Head(queue)).raises

\* C37: pipeline step failure isolation. When a step raises (an unknown step
\* id included), execute records the step in step_results with success =
\* False and allocated = 0, adds nothing to the total and continues with the
\* next step; if and only if the failing step is marked critical, all
\* remaining steps are skipped; in both cases execute still returns a result:
\* it never raises, and it goes on to its final validation and returns.
C37_StepFailureIsolation ==
    /\ [][head_step_raises =>
            LET step == Head(queue)
            IN /\ step.id \in DOMAIN result'.step_results
               /\ result'.step_results[step.id] = [allocated |-> 0, success |-> FALSE]
               /\ result'.total_allocated = result.total_allocated
               /\ IF step.critical \/ Tail(queue) = <<>>
                  THEN pc' = "validate"
                  ELSE pc' = "steps" /\ queue' = Tail(queue)]_vars
    /\ [][pc = "validate" =>
            /\ pc' = "returned"
            /\ result'.execution_log = result.execution_log
            /\ result'.step_results = result.step_results]_vars
    /\ []((\E i \in 1..Len(result.execution_log) : ~result.execution_log[i].ok)
            => /\ pc \in {"steps", "validate", "returned"}
               /\ pc = "steps" => queue # <<>>)

\* execute returned after the step with an unknown id failed, not being
\* critical, and the enabled step after it was run
C37_ContinuedAfterFailure ==
    /\ pc = "returned"
    /\ Len(result.execution_log) >= 2
    /\ ~result.execution_log[1].ok
    /\ ~step_of(executed[1]).critical
    /\ result.step_results[executed[1]] = [allocated |-> 0, success |-> FALSE]
    /\ result.execution_log[2].ok

\* C38: weekly quota invariant. No booking made by phases 0, 1 or 2
\* (individual or shared, for either team of a pair) places a team in a week
\* in which its weekly_count already equals or exceeds its weekly quota; hence
\* for every team, in a week that holds a phase-booked session of the team
\* weekly_count is never above the quota.
C38_WeeklyQuota ==
    /\ [][(Len(schedule') = Len(schedule) + 1 /\ phase_booked(schedule'[Len(schedule')]))
            => LET e == schedule'[Len(schedule')]
               IN \A t \in Teams : involves(e, t) =>
                      count_in_week(teams_needing_slots[t], get_week_number(e.date))
                          < max_per_week(teams_data[t])]_vars
    /\ [](\A t \in Teams : \A i \in 1..Len(schedule) :
            (pc # "start" /\ phase_booked(schedule[i]) /\ involves(schedule[i], t))
                => count_in_week(teams_needing_slots[t], get_week_number(schedule[i].date))
                       <= max_per_week(teams_data[t]))

\* a team that still needs sessions is at its quota in a week through a
\* phase booking, while the pool holds a block of that week that fits the
\* team on a date on which it has no session and no blackout
C38_QuotaReachedIceLeft ==
    /\ pc \in {"phase1", "phase2"}
    /\ \E t \in Teams : \E bi \in 1..Len(available_blocks) :
           LET block == available_blocks[bi]
               week_num == get_week_number(block.date)
           IN /\ teams_needing_slots[t].needed > 0
              /\ max_per_week(teams_data[t]) >= 1
              /\ count_in_week(teams_needing_slots[t], week_num)
                     = max_per_week(teams_data[t])
              /\ \E i \in 1..Len(schedule) :
                     /\ phase_booked(schedule[i]) /\ involves(schedule[i], t)
                     /\ get_week_number(schedule[i].date) = week_num
              /\ can_fit_duration(block, teams_data[t].practice_duration)
              /\ ~has_blackout_on_date(teams_data[t], block.date)
              /\ block.date \notin teams_needing_slots[t].scheduled_dates

\* the date is listed in the blackout dates of the team
blackout_date_of(t, date) == date \in SeqToSet(teams_data[t].blackout_dates)

\* C39: every schedule entry created by an allocation phase (phases 0-2,
\* pre-assigned entries excluded) lies on a date that is not a blackout date
\* of the booked team nor, for a shared practice, of its partner.
C39_PhaseBookingsAvoidBlackouts ==
    \A i \in 1..Len(schedule) :
        phase_booked(schedule[i]) =>
            \A t \in Teams :
                involves(schedule[i], t) => ~blackout_date_of(t, schedule[i].date)

\* a shared practice on a later day of a team that has a blackout on the
\* first Monday, whose ice is still unbooked in the pool
C39_SharedPastBlackout ==
    \E i \in 1..Len(schedule) : \E t \in Teams : \E bi \in 1..Len(available_blocks) :
        /\ schedule[i].type = "shared practice"
        /\ involves(schedule[i], t)
        /\ blackout_date_of(t, 0)
        /\ schedule[i].date > 0
        /\ available_blocks[bi].date = 0
        /\ available_blocks[bi].bookings = <<>>

\* where the run stands: the phase, the iteration of its loop and the teams
\* whose turn of phase 0 is still to come
position == <<pc, iteration, queue>>

\* the lists of teams without repetition
TeamLists ==
    UNION {{q \in [1..n -> Teams] : \A i, j \in 1..n : i # j => q[i] # q[j]} :
              n \in 0..NumTeams}

\* a step of a run that is not over, seen through the position alone. Every
\* step of Next is such a step and moves the position (AdvanceIsNext), and
\* one can be taken exactly when the run is not over.
Advance ==
    /\ pc \notin {"done", "raised"}
    /\ pc' \in {"phase0", "phase1", "phase2", "analysis", "done", "raised"}
    /\ iteration' \in 0..max_iterations_phase1
    /\ queue' \in TeamLists

\* every step of the run is a step of Advance that moves the position
AdvanceIsNext == [][Advance /\ position' # position]_vars

\* one arena with three hours of open ice on four days of every week,
\* listed as three availability blocks that follow one another
TerminationArenas ==
    LET ice == [ArenaBlock("A", <<>>, <<>>) EXCEPT
                   !.slots = [d \in 0..6 |->
                                 IF d \in {Monday, Wednesday, Wednesday + 2, Wednesday + 3}
                                 THEN <<OpenSlot(H(17, 0), H(20, 0))>> ELSE <<>>]]
    IN <<[ice EXCEPT !.start = 0, !.end = 13],
         [ice EXCEPT !.start = 14, !.end = 27],
         [ice EXCEPT !.start = 28, !.end = 44]>>

\* a season of 13 or of 44 days with more ice than the iteration limits of
\* phases 1 and 2 let the run book, and a weekly quota of up to MaxQuota + 2
InitTermination ==
    /\ season_days \in {13, 44}
    /\ start_weekday = Monday
    /\ \E multiple \in [Teams -> BOOLEAN], sharing \in SharingChoices :
           teams_data = [t \in Teams |->
               normalize_team_info(RawTeam(9, multiple[t], sharing[t], NoPrefs, <<>>))]
    /\ team_order = [t \in Teams |-> t]
    /\ arenas_data = TerminationArenas
    /\ \E q \in 1..(MaxQuota + 2) : rules_data = [k \in {<<"house", 9>>} |-> q]
    /\ pc = "start"
    /\ config = <<>>
    /\ available_blocks = <<>>
    /\ schedule = <<>>
    /\ team_bookings = [t \in Teams |-> <<>>]
    /\ arena_bookings = [a \in Arenas |-> <<>>]
    /\ teams_needing_slots = [t \in Teams |-> Call("initial_demand", <<<<>>, t>>)]
    /\ queue = <<>>
    /\ iteration = 0
    /\ phase_allocated = <<0, 0, 0>>
    /\ result = [zero_allocations |-> <<>>, perfect_allocations |-> <<>>,
                 same_day_violations |-> <<>>]

\* a run as the interpreter runs it: the program is sequential and nothing
\* suspends it, so it does not stay for ever in a position from which it
\* can go on. Stated on Advance, which is enabled whenever Next is, the
\* condition is WF_vars(Next).
SpecTermination == InitTermination /\ [][Next]_vars /\ WF_position(Advance)

\* C40: termination. For every finite input a full run terminates: phase 0
\* makes one pass over the teams, phase 1 ends after at most 25 iterations
\* or at the first iteration without progress, phase 2 ends after at most 15
\* iterations or at the first iteration without progress, and each iteration
\* commits at most one booking.
C40_Termination ==
    /\ <>(pc \in {"done", "raised"})
    /\ [](pc = "phase0" =>
            \A i, j \in 1..Len(queue) : i # j => queue[i] # queue[j])
    /\ [][pc = "phase0" =>
            /\ queue' = Tail(queue)
            /\ pc' = IF Tail(queue) = <<>> THEN "phase1" ELSE "phase0"]_vars
    /\ [](pc = "phase1" => iteration < 25)
    /\ [](pc = "phase2" => iteration < 15)
    /\ [][pc = "phase1" =>
            /\ Len(schedule') \in {Len(schedule), Len(schedule) + 1}
            /\ pc' \in {"phase1", "phase2"}
            /\ pc' = "phase1" => iteration' = iteration + 1
            /\ Len(schedule') = Len(schedule) => pc' = "phase2"]_vars
    /\ [][pc = "phase2" =>
            /\ Len(schedule') \in {Len(schedule), Len(schedule) + 1}
            /\ pc' \in {"phase2", "analysis"}
            /\ pc' = "phase2" => iteration' = iteration + 1
            /\ Len(schedule') = Len(schedule) => pc' = "analysis"]_vars

\* the run returned after phase 1 was stopped by its limit of 25 iterations
\* and phase 2 by its limit of 15, each iteration having made a booking
C40_StoppedByIterationLimit ==
    /\ returned
    /\ phase_allocated[2] = 25
    /\ phase_allocated[3] = 15
====
